---- MODULE Spec2Model ----
(***************************************************************************)
(* Timber beam checks after EN 1995-1-1 / -1-2 (src/src/*.py).             *)
(*                                                                         *)
(* The Python code computes with floats.  Here every float is an exact     *)
(* decimal rational  n/d * 10^e  (a record [k, n, d, e]); the tag k also   *)
(* carries float("inf") and the Python exception an expression raised, so  *)
(* that a division by zero or a failed table lookup is an outcome of the   *)
(* computation and not a gap of the model.  Rounding of IEEE doubles is    *)
(* not modelled; math.sqrt is modelled truncated to two decimals.          *)
(***************************************************************************)
EXTENDS Integers, Sequences, FiniteSets, TLC

(***************************************************************************)
(* Numbers                                                                 *)
(***************************************************************************)
Abs(x) == IF x < 0 THEN -x ELSE x

RECURSIVE GCD(_, _)
GCD(a, b) == IF b = 0 THEN a ELSE GCD(b, a % b)

RECURSIVE Pow10(_)
Pow10(k) == IF k <= 0 THEN 1 ELSE 10 * Pow10(k - 1)

Num(n, d, e) == [k |-> "num", n |-> n, d |-> d, e |-> e]

\* trailing decimal zeros of the numerator move into the exponent
RECURSIVE StripN(_, _, _)
StripN(n, d, e) ==
    IF n # 0 /\ n % 10 = 0 THEN StripN(n \div 10, d, e + 1) ELSE Num(n, d, e)

RECURSIVE StripD(_, _, _)
StripD(n, d, e) ==
    IF d % 10 = 0 THEN StripD(n, d \div 10, e - 1) ELSE StripN(n, d, e)

\* the canonical form of n/d * 10^e (d > 0)
Norm(n, d, e) ==
    IF n = 0 THEN Num(0, 1, 0)
    ELSE LET g == GCD(Abs(n), d) IN StripD(n \div g, d \div g, e)

Dec(n, e) == Norm(n, 1, e)
I(n) == Norm(n, 1, 0)
Zero == Num(0, 1, 0)
One == Num(1, 1, 0)
Inf == [k |-> "inf", n |-> 1, d |-> 1, e |-> 0]
Exc(kind) == [k |-> kind, n |-> 0, d |-> 1, e |-> 0]

IsNum(x) == x.k = "num"
\* a Python exception travelled up to here
Raised(x) == x.k \notin {"num", "inf"}

RMul(a, b) ==
    IF ~IsNum(a) THEN a ELSE IF ~IsNum(b) THEN b
    ELSE IF a.n = 0 \/ b.n = 0 THEN Zero
    ELSE LET g1 == GCD(Abs(a.n), b.d)
             g2 == GCD(Abs(b.n), a.d)
         IN Norm((a.n \div g1) * (b.n \div g2), (a.d \div g2) * (b.d \div g1), a.e + b.e)

RDiv(a, b) ==
    IF ~IsNum(a) THEN a ELSE IF ~IsNum(b) THEN b
    ELSE IF b.n = 0 THEN Exc("ZeroDivisionError")
    ELSE RMul(a, Num(IF b.n < 0 THEN -b.d ELSE b.d, Abs(b.n), -b.e))

RAdd(a, b) ==
    IF ~IsNum(a) THEN a ELSE IF ~IsNum(b) THEN b
    ELSE LET m == IF a.e < b.e THEN a.e ELSE b.e
             g == GCD(a.d, b.d)
             an == a.n * Pow10(a.e - m) * (b.d \div g)
             bn == b.n * Pow10(b.e - m) * (a.d \div g)
         IN Norm(an + bn, (a.d \div g) * b.d, m)

RNeg(a) == IF ~IsNum(a) THEN a ELSE Num(-a.n, a.d, a.e)
RSub(a, b) == RAdd(a, RNeg(b))

RECURSIVE RPow(_, _)
RPow(a, k) == IF k = 0 THEN One ELSE RMul(a, RPow(a, k - 1))

\* the order of two fractions p/q and r/s of positive integers (-1, 0, 1),
\* by their continued fractions: no product is formed
RECURSIVE CmpFrac(_, _, _, _)
CmpFrac(p, q, r, s) ==
    LET i1 == p \div q
        i2 == r \div s
        p1 == p % q
        r1 == r % s
    IN IF i1 # i2 THEN (IF i1 < i2 THEN -1 ELSE 1)
       ELSE IF p1 = 0 /\ r1 = 0 THEN 0
       ELSE IF p1 = 0 THEN -1
       ELSE IF r1 = 0 THEN 1
       ELSE -CmpFrac(q, p1, s, r1)

Sign(a) == IF a.n > 0 THEN 1 ELSE IF a.n < 0 THEN -1 ELSE 0

\* the order of two numbers of the same sign, by their magnitudes
\* p/q * 10^k against r/s for k >= 0; each power of ten goes to the smaller
\* of p and s, so that the integers stay small
RECURSIVE CmpScaled(_, _, _, _, _)
CmpScaled(p, q, k, r, s) ==
    IF k = 0 THEN CmpFrac(p, q, r, s)
    ELSE IF p <= s THEN CmpScaled(p * 10, q, k - 1, r, s)
    ELSE CmpScaled(p, q, k - 1, r, s * 10)
CmpAbs(a, b) ==
    IF a.e >= b.e THEN CmpScaled(Abs(a.n), a.d, a.e - b.e, Abs(b.n), b.d)
    ELSE 0 - CmpScaled(Abs(b.n), b.d, b.e - a.e, Abs(a.n), a.d)

Cmp(a, b) ==
    IF Sign(a) # Sign(b) THEN (IF Sign(a) < Sign(b) THEN -1 ELSE 1)
    ELSE IF Sign(a) = 0 THEN 0
    ELSE IF Sign(a) > 0 THEN CmpAbs(a, b) ELSE CmpAbs(b, a)

\* comparisons of two numbers (inf is above every number)
RLt(a, b) ==
    IF a.k = "inf" THEN FALSE
    ELSE IF b.k = "inf" THEN TRUE
    ELSE Cmp(a, b) < 0
RLeq(a, b) ==
    IF b.k = "inf" THEN TRUE
    ELSE IF a.k = "inf" THEN FALSE
    ELSE Cmp(a, b) <= 0
RMax(a, b) == IF RLt(a, b) THEN b ELSE a

\* floor(x * 10^k) of a number x >= 0, by long division
RECURSIVE LongDiv(_, _, _)
LongDiv(n, d, k) ==
    IF k = 0 THEN n \div d
    ELSE (n \div d) * Pow10(k) + LongDiv((n % d) * 10, d, k - 1)
ScaledFloor(x, k) ==
    IF x.e >= 0 THEN LongDiv(x.n * Pow10(x.e), x.d, k)
    ELSE IF k + x.e >= 0 THEN LongDiv(x.n, x.d, k + x.e)
    ELSE (x.n \div x.d) \div Pow10(-(k + x.e))

\* floor of the square root of an integer v >= 0, by bisection on lo..hi
RECURSIVE ISqrt(_, _, _)
ISqrt(v, lo, hi) ==
    IF lo >= hi THEN lo
    ELSE LET mid == (lo + hi + 1) \div 2
         IN IF mid * mid <= v THEN ISqrt(v, mid, hi) ELSE ISqrt(v, lo, mid - 1)

\* math.sqrt: ValueError below zero; the root, truncated to 1/100
Sqrt(x) ==
    IF ~IsNum(x) THEN x
    ELSE IF x.n < 0 THEN Exc("ValueError")
    ELSE Norm(ISqrt(ScaledFloor(x, 4), 0, 46340), 1, -2)

(***************************************************************************)
(* materials.py                                                            *)
(***************************************************************************)
\* a TimberMaterial record (the fields the checks read)
TimberMaterial(name, timber_type, fm_k, fv_k, E_0_mean, E_0_05) ==
    [name |-> name, timber_type |-> timber_type, fm_k |-> fm_k, fv_k |-> fv_k,
     E_0_mean |-> E_0_mean, E_0_05 |-> E_0_05]

\* the partial factor of solid timber for every kind
gamma_M_solid_for_all(mat) == Dec(13, -1)

gamma_M(mat) == IF mat.timber_type = "solid" THEN Dec(13, -1) ELSE Dec(125, -2)

kcr(mat) == IF mat.timber_type = "solid" THEN Dec(67, -2) ELSE Dec(67, -2)

\* the record load_timber_database builds of one entry of the file
MaterialOf(name, timber_type, props) ==
    TimberMaterial(name, timber_type, props.fm_k, props.fv_k, props.E_0_mean,
                   props.E_0_05)

\* load_timber_database: file = [solid_timber, glulam], each a mapping from
\* the grade name to its properties; the glulam loop runs second and
\* overwrites an entry of the same name
load_timber_database(file) ==
    [name \in DOMAIN file.solid_timber \cup DOMAIN file.glulam |->
        IF name \in DOMAIN file.glulam
        THEN MaterialOf(name, "glulam", file.glulam[name])
        ELSE MaterialOf(name, "solid", file.solid_timber[name])]

\* what a call returned (raised = "") or the exception it raised
Returned(value) == [raised |-> "", value |-> value]
RaisedWith(exception, message) == [raised |-> exception, message |-> message]

\* a lookup that indexes the database without asking first
get_material_unguarded(file, name) ==
    LET db == load_timber_database(file)
    IN IF name \notin DOMAIN db
       THEN RaisedWith("KeyError", name)
       ELSE Returned(db[name])

get_material(file, name) ==
    LET db == load_timber_database(file)
    IN IF name \notin DOMAIN db
       THEN RaisedWith("ValueError", "Neznama trida dreva: " \o name)
       ELSE Returned(db[name])

(***************************************************************************)
(* sections.py                                                             *)
(***************************************************************************)
\* a validation that lets a zero dimension through
RectangularSection_post_init_negative_only(b, h) ==
    IF RLt(b, Zero) \/ RLt(h, Zero) THEN "Rozmery prurezu musi byt kladne" ELSE ""

\* RectangularSection.__post_init__: "" or the message of the ValueError
\* (messages are written without their diacritics)
RectangularSection_post_init(b, h) ==
    IF RLeq(b, Zero) \/ RLeq(h, Zero) THEN "Rozmery prurezu musi byt kladne" ELSE ""

RectangularSection(b, h) == [b |-> b, h |-> h]

A(sec) == RMul(sec.b, sec.h)
I_y(sec) == RDiv(RMul(sec.b, RPow(sec.h, 3)), I(12))
\* the section modulus about the weak axis
W_y_about_weak_axis(sec) == RDiv(RMul(sec.h, RPow(sec.b, 2)), I(6))
W_y(sec) == RDiv(RMul(sec.b, RPow(sec.h, 2)), I(6))

\* the properties of a RectangularSection, each read once
SectionProperties(sec) == [A |-> A(sec), I_y |-> I_y(sec), W_y |-> W_y(sec)]

(***************************************************************************)
(* loads.py                                                                *)
(***************************************************************************)
\* a table whose service class 3 repeats the values of classes 1 and 2
KMOD_TABLE_class_3_as_1 ==
    LET c12 == [permanent |-> Dec(60, -2), long_term |-> Dec(70, -2),
                medium_term |-> Dec(80, -2), short_term |-> Dec(90, -2),
                instantaneous |-> Dec(110, -2)]
    IN (1 :> c12) @@ (2 :> c12) @@ (3 :> c12)

KMOD_TABLE ==
    LET c12 == [permanent |-> Dec(60, -2), long_term |-> Dec(70, -2),
                medium_term |-> Dec(80, -2), short_term |-> Dec(90, -2),
                instantaneous |-> Dec(110, -2)]
        c3 == [permanent |-> Dec(50, -2), long_term |-> Dec(55, -2),
               medium_term |-> Dec(65, -2), short_term |-> Dec(70, -2),
               instantaneous |-> Dec(90, -2)]
    IN (1 :> c12) @@ (2 :> c12) @@ (3 :> c3)

KDEF_TABLE == (1 :> Dec(60, -2)) @@ (2 :> Dec(80, -2)) @@ (3 :> Dec(200, -2))

PSI_2 ==
    [cat_A |-> Dec(3, -1), cat_B |-> Dec(3, -1), cat_C |-> Dec(6, -1),
     cat_D |-> Dec(6, -1), cat_E |-> Dec(8, -1), cat_H |-> Zero,
     snow |-> Zero, wind |-> Zero]

\* a validation that looks at the variable load first
LoadCase_post_init_q_first(g_k, q_k, span) ==
    IF RLt(q_k, Zero) THEN "Promenne zatizeni q_k nemuze byt zaporne"
    ELSE IF RLt(g_k, Zero) THEN "Stale zatizeni g_k nemuze byt zaporne"
    ELSE IF RLeq(span, Zero) THEN "Rozpeti musi byt kladne"
    ELSE ""

\* LoadCase.__post_init__: "" or the message of the ValueError
LoadCase_post_init(g_k, q_k, span) ==
    IF RLt(g_k, Zero) THEN "Stale zatizeni g_k nemuze byt zaporne"
    ELSE IF RLt(q_k, Zero) THEN "Promenne zatizeni q_k nemuze byt zaporne"
    ELSE IF RLeq(span, Zero) THEN "Rozpeti musi byt kladne"
    ELSE ""

LoadCase(g_k, q_k, span, service_class, load_duration, load_category) ==
    [g_k |-> g_k, q_k |-> q_k, span |-> span, service_class |-> service_class,
     load_duration |-> load_duration, load_category |-> load_category]

\* the defaults of the dataclass fields
LoadCase_defaults ==
    [service_class |-> 1, load_duration |-> "medium_term", load_category |-> "cat_A"]

\* LoadCase(**kwargs): a field that is not passed takes its default
LoadCaseFrom(kwargs) ==
    LET given(field) == IF field \in DOMAIN kwargs THEN kwargs[field]
                        ELSE LoadCase_defaults[field]
    IN LoadCase(kwargs.g_k, kwargs.q_k, kwargs.span, given("service_class"),
                given("load_duration"), given("load_category"))

\* a lookup whose table lost the row of service class 3
kmod_without_class_3(load) ==
    IF load.service_class \notin {1, 2} THEN Exc("KeyError")
    ELSE IF load.load_duration \notin DOMAIN KMOD_TABLE[load.service_class]
    THEN Exc("KeyError")
    ELSE KMOD_TABLE[load.service_class][load.load_duration]

kmod(load) ==
    IF load.service_class \notin DOMAIN KMOD_TABLE THEN Exc("KeyError")
    ELSE IF load.load_duration \notin DOMAIN KMOD_TABLE[load.service_class]
    THEN Exc("KeyError")
    ELSE KMOD_TABLE[load.service_class][load.load_duration]

kdef(load) ==
    IF load.service_class \notin DOMAIN KDEF_TABLE THEN Exc("KeyError")
    ELSE KDEF_TABLE[load.service_class]

\* a lookup without the default of dict.get
psi_2_indexed(load) ==
    IF load.load_category \in DOMAIN PSI_2 THEN PSI_2[load.load_category]
    ELSE Exc("KeyError")

psi_2(load) ==
    IF load.load_category \in DOMAIN PSI_2 THEN PSI_2[load.load_category]
    ELSE Dec(3, -1)

q_Ed(load) == RAdd(RMul(Dec(135, -2), load.g_k), RMul(Dec(15, -1), load.q_k))
q_char(load) == RAdd(load.g_k, load.q_k)
\* a moment that grows with the span and not with its square
M_Ed_linear_in_span(load) == RDiv(RMul(q_Ed(load), load.span), I(8))
M_Ed(load) == RDiv(RMul(q_Ed(load), RPow(load.span, 2)), I(8))
V_Ed(load) == RDiv(RMul(q_Ed(load), load.span), I(2))

\* the properties of a LoadCase, each read once
LoadCaseProperties(load) ==
    [kmod |-> kmod(load), kdef |-> kdef(load), psi_2 |-> psi_2(load),
     q_Ed |-> q_Ed(load), q_char |-> q_char(load),
     M_Ed |-> M_Ed(load), V_Ed |-> V_Ed(load)]

(***************************************************************************)
(* timber_check.py: self = [mat, sec, load, lef_factor, deflection_limit]  *)
(***************************************************************************)
TimberBeamCheck(material, section, load, lef_factor, deflection_limit) ==
    [mat |-> material, sec |-> section, load |-> load,
     lef_factor |-> lef_factor, deflection_limit |-> deflection_limit]

\* the defaults of TimberBeamCheck.__init__
TimberBeamCheck_defaults == [lef_factor |-> One, deflection_limit |-> 300]

\* TimberBeamCheck(material, section, load, **kwargs): an argument that is
\* not passed takes its default
TimberBeamCheckFrom(material, section, load, kwargs) ==
    LET given(field) == IF field \in DOMAIN kwargs THEN kwargs[field]
                        ELSE TimberBeamCheck_defaults[field]
    IN TimberBeamCheck(material, section, load, given("lef_factor"),
                       given("deflection_limit"))

\* a CheckResult; the call raises when its utilization could not be computed
CheckResult(name, utilization, stress_d, strength_d) ==
    [name |-> name, utilization |-> utilization, stress_d |-> stress_d,
     strength_d |-> strength_d,
     passed |-> IF Raised(utilization) THEN FALSE ELSE RLeq(utilization, One),
     raised |-> IF Raised(utilization) THEN utilization.k ELSE ""]

fm_d(self) == RDiv(RMul(kmod(self.load), self.mat.fm_k), gamma_M(self.mat))
fv_d(self) == RDiv(RMul(kmod(self.load), self.mat.fv_k), gamma_M(self.mat))

\* sigma_m,d = M_Ed * 1e6 / W_y, of check_bending and of the buckling check
sigma_m_d(self) == RDiv(RMul(M_Ed(self.load), Dec(1, 6)), W_y(self.sec))

BendingResult(stress, strength) == CheckResult("Ohyb", RDiv(stress, strength), stress, strength)

check_bending(self) == BendingResult(sigma_m_d(self), fm_d(self))

ShearResult(tau_d, strength) == CheckResult("Smyk", RDiv(tau_d, strength), tau_d, strength)

check_shear(self) ==
    ShearResult(RDiv(RMul(RMul(Dec(15, -1), V_Ed(self.load)), Dec(1, 3)),
                     RMul(kcr(self.mat), A(self.sec))),
                fv_d(self))

\* a critical stress over the span, whatever the effective-length factor
calc_sigma_m_crit_over_span(self) ==
    RDiv(RMul(RMul(Dec(78, -2), RPow(self.sec.b, 2)), self.mat.E_0_05),
         RMul(self.sec.h, RMul(self.load.span, I(1000))))

calc_sigma_m_crit(self) ==
    RDiv(RMul(RMul(Dec(78, -2), RPow(self.sec.b, 2)), self.mat.E_0_05),
         RMul(self.sec.h, RMul(RMul(self.lef_factor, self.load.span), I(1000))))

calc_lambda_rel_m(self) == Sqrt(RDiv(self.mat.fm_k, calc_sigma_m_crit(self)))

\* the three branches of _calc_kcrit, as functions of lambda_rel_m
kcrit_low == One
\* a middle branch shifted to meet the first one at 0.75
kcrit_mid_meeting_low(lambda_rel_m) ==
    RSub(Dec(15625, -4), RMul(Dec(75, -2), lambda_rel_m))
kcrit_mid(lambda_rel_m) == RSub(Dec(156, -2), RMul(Dec(75, -2), lambda_rel_m))
kcrit_high(lambda_rel_m) == RDiv(One, RPow(lambda_rel_m, 2))

\* a selection whose boundaries belong to the upper branches
kcrit_of_strict(lambda_rel_m) ==
    IF Raised(lambda_rel_m) THEN lambda_rel_m
    ELSE IF RLt(lambda_rel_m, Dec(75, -2)) THEN kcrit_low
    ELSE IF RLt(lambda_rel_m, Dec(14, -1)) THEN kcrit_mid(lambda_rel_m)
    ELSE kcrit_high(lambda_rel_m)

\* a kcrit without its plateau: the linear branch from zero slenderness on
kcrit_of_without_plateau(lambda_rel_m) ==
    IF Raised(lambda_rel_m) THEN lambda_rel_m
    ELSE IF RLeq(lambda_rel_m, Dec(14, -1)) THEN kcrit_mid(lambda_rel_m)
    ELSE kcrit_high(lambda_rel_m)

kcrit_of(lambda_rel_m) ==
    IF Raised(lambda_rel_m) THEN lambda_rel_m
    ELSE IF RLeq(lambda_rel_m, Dec(75, -2)) THEN kcrit_low
    ELSE IF RLeq(lambda_rel_m, Dec(14, -1)) THEN kcrit_mid(lambda_rel_m)
    ELSE kcrit_high(lambda_rel_m)

calc_kcrit(self) == kcrit_of(calc_lambda_rel_m(self))

\* kcrit is computed first: its exception is the one that is raised
BucklingResult(kcrit, stress, fm_d_red) ==
    CheckResult("Klopeni", IF Raised(kcrit) THEN kcrit ELSE RDiv(stress, fm_d_red),
                stress, fm_d_red)

BucklingWith(kcrit, stress, strength) ==
    BucklingResult(kcrit, stress, RMul(kcrit, strength))

check_lateral_torsional_buckling(self) ==
    BucklingWith(calc_kcrit(self), sigma_m_d(self), fm_d(self))

\* a result whose verdict is taken from the instantaneous deflection
DeflectionResult_instant_verdict(w_inst, w_fin, w_limit, limit_ratio) ==
    [w_inst |-> w_inst, w_fin |-> w_fin, w_limit |-> w_limit,
     limit_ratio |-> limit_ratio,
     passed |-> IF Raised(w_fin) \/ Raised(w_limit) THEN FALSE
                ELSE RLeq(w_inst, w_limit),
     raised |-> IF Raised(w_fin) THEN w_fin.k
                ELSE IF Raised(w_limit) THEN w_limit.k ELSE ""]

DeflectionResult(w_inst, w_fin, w_limit, limit_ratio) ==
    [w_inst |-> w_inst, w_fin |-> w_fin, w_limit |-> w_limit,
     limit_ratio |-> limit_ratio,
     passed |-> IF Raised(w_fin) \/ Raised(w_limit) THEN FALSE
                ELSE RLeq(w_fin, w_limit),
     raised |-> IF Raised(w_fin) THEN w_fin.k
                ELSE IF Raised(w_limit) THEN w_limit.k ELSE ""]

\* DeflectionResult.utilization
DeflectionResult_utilization(r) == RDiv(r.w_fin, r.w_limit)

\* the share of one load in the characteristic combination q_char
\* shares that split the load evenly, whatever its parts
LoadRatio_even(part, total, otherwise) ==
    IF RLt(Zero, total) THEN Dec(5, -1) ELSE otherwise

LoadRatio(part, total, otherwise) ==
    IF RLt(Zero, total) THEN RDiv(part, total) ELSE otherwise

\* a final deflection in which the variable load creeps in full
FinalDeflection_all_creeping(w_inst, q_g_ratio, q_q_ratio, kdef_, psi_2_) ==
    RMul(w_inst, RAdd(RMul(q_g_ratio, RAdd(One, kdef_)),
                      RMul(q_q_ratio, RAdd(One, kdef_))))

\* w_fin of check_deflection
FinalDeflection(w_inst, q_g_ratio, q_q_ratio, kdef_, psi_2_) ==
    RMul(w_inst, RAdd(RMul(q_g_ratio, RAdd(One, kdef_)),
                      RMul(q_q_ratio, RAdd(One, RMul(psi_2_, kdef_)))))

DeflectionWith(self, L_mm, w_inst) ==
    DeflectionResult(w_inst,
                     FinalDeflection(w_inst,
                                     LoadRatio(self.load.g_k, q_char(self.load), One),
                                     LoadRatio(self.load.q_k, q_char(self.load), Zero),
                                     kdef(self.load), psi_2(self.load)),
                     RDiv(L_mm, I(self.deflection_limit)),
                     self.deflection_limit)

InstantDeflection(self, L_mm) ==
    RDiv(RMul(RMul(I(5), q_char(self.load)), RPow(L_mm, 4)),
         RMul(RMul(I(384), self.mat.E_0_mean), I_y(self.sec)))

DeflectionOver(self, L_mm) == DeflectionWith(self, L_mm, InstantDeflection(self, L_mm))

check_deflection(self) == DeflectionOver(self, RMul(self.load.span, I(1000)))

\* a summary whose largest utilization takes the deflection in as well
BeamResults_deflection_in_max(self, bending, shear, ltb, deflection) ==
    [raised |-> IF bending.raised # "" THEN bending.raised
                ELSE IF shear.raised # "" THEN shear.raised
                ELSE IF ltb.raised # "" THEN ltb.raised
                ELSE deflection.raised,
     bending |-> bending,
     shear |-> shear,
     lateral_torsional_buckling |-> ltb,
     deflection |-> deflection,
     all_passed |-> bending.passed /\ shear.passed /\ ltb.passed /\ deflection.passed,
     max_uls_utilization |->
         IF bending.raised # "" \/ shear.raised # "" \/ ltb.raised # ""
            \/ deflection.raised # ""
         THEN Zero
         ELSE RMax(RMax(RMax(bending.utilization, shear.utilization), ltb.utilization),
                   RDiv(deflection.w_fin, deflection.w_limit)),
     internal_forces |-> [M_Ed |-> M_Ed(self.load), V_Ed |-> V_Ed(self.load)],
     design_values |-> [kmod |-> kmod(self.load), gamma_M |-> gamma_M(self.mat),
                        fm_d |-> fm_d(self), fv_d |-> fv_d(self),
                        kcrit |-> calc_kcrit(self),
                        lambda_rel_m |-> calc_lambda_rel_m(self)]]

\* the dict of TimberBeamCheck.run_all_checks; raised names the exception of
\* the first check that raised, and no dict is returned then
BeamResults(self, bending, shear, ltb, deflection) ==
    [raised |-> IF bending.raised # "" THEN bending.raised
                ELSE IF shear.raised # "" THEN shear.raised
                ELSE IF ltb.raised # "" THEN ltb.raised
                ELSE deflection.raised,
     bending |-> bending,
     shear |-> shear,
     lateral_torsional_buckling |-> ltb,
     deflection |-> deflection,
     all_passed |-> bending.passed /\ shear.passed /\ ltb.passed /\ deflection.passed,
     max_uls_utilization |->
         IF bending.raised # "" \/ shear.raised # "" \/ ltb.raised # ""
         THEN Zero
         ELSE RMax(RMax(bending.utilization, shear.utilization), ltb.utilization),
     internal_forces |-> [M_Ed |-> M_Ed(self.load), V_Ed |-> V_Ed(self.load)],
     design_values |-> [kmod |-> kmod(self.load), gamma_M |-> gamma_M(self.mat),
                        fm_d |-> fm_d(self), fv_d |-> fv_d(self),
                        kcrit |-> calc_kcrit(self),
                        lambda_rel_m |-> calc_lambda_rel_m(self)]]

\* the private helpers of the buckling check beside the dict of the checks
BeamCheckProperties(self) ==
    [sigma_m_crit |-> calc_sigma_m_crit(self),
     lambda_rel_m |-> calc_lambda_rel_m(self),
     kcrit |-> calc_kcrit(self),
     checks |-> BeamResults(self, check_bending(self), check_shear(self),
                            check_lateral_torsional_buckling(self),
                            check_deflection(self))]

TimberBeamCheck_run_all_checks(self) ==
    BeamResults(self, check_bending(self), check_shear(self),
                check_lateral_torsional_buckling(self), check_deflection(self))

(***************************************************************************)
(* fire_check.py: self = [mat, sec, load, fire]                            *)
(***************************************************************************)
CHARRING_RATES ==
    [solid |-> [beta_0 |-> Dec(65, -2), beta_n |-> Dec(80, -2)],
     glulam |-> [beta_0 |-> Dec(65, -2), beta_n |-> Dec(70, -2)]]

D0 == I(7)
K_FI == Dec(125, -2)
GAMMA_M_FI == One
KMOD_FI == One

FireExposure(duration, exposure, use_beta_n) ==
    [duration |-> duration, exposure |-> exposure, use_beta_n |-> use_beta_n]

\* the defaults of the dataclass fields
FireExposure_defaults == [exposure |-> "three_sides", use_beta_n |-> TRUE]

\* FireExposure(**kwargs): a field that is not passed takes its default
FireExposureFrom(kwargs) ==
    LET given(field) == IF field \in DOMAIN kwargs THEN kwargs[field]
                        ELSE FireExposure_defaults[field]
    IN FireExposure(kwargs.duration, given("exposure"), given("use_beta_n"))

ReducedSection(b_fi, h_fi, d_char, d_ef) ==
    [b_fi |-> b_fi, h_fi |-> h_fi, d_char |-> d_char, d_ef |-> d_ef]

A_fi(red) == RMul(red.b_fi, red.h_fi)
W_y_fi(red) == RDiv(RMul(red.b_fi, RPow(red.h_fi, 2)), I(6))
\* a validity that takes a dimension of zero for sound
is_valid_nonnegative(red) == RLeq(Zero, red.b_fi) /\ RLeq(Zero, red.h_fi)
is_valid(red) == RLt(Zero, red.b_fi) /\ RLt(Zero, red.h_fi)

FireCheckResult(name, utilization, stress_d_fi, strength_d_fi, passed) ==
    [name |-> name, utilization |-> utilization, stress_d_fi |-> stress_d_fi,
     strength_d_fi |-> strength_d_fi, passed |-> passed, raised |-> ""]

\* the call of a fire check that ended in the exception of value x
FireCheckRaised(name, x) ==
    [name |-> name, utilization |-> x, stress_d_fi |-> x, strength_d_fi |-> x,
     passed |-> FALSE, raised |-> x.k]

TimberFireCheck(material, section, load, fire) ==
    [mat |-> material, sec |-> section, load |-> load, fire |-> fire]

beta(self) ==
    IF self.mat.timber_type \notin DOMAIN CHARRING_RATES THEN Exc("KeyError")
    ELSE IF self.fire.use_beta_n THEN CHARRING_RATES[self.mat.timber_type].beta_n
    ELSE CHARRING_RATES[self.mat.timber_type].beta_0

d_char(self) == RMul(beta(self), I(self.fire.duration))

d_ef(self) == RAdd(d_char(self), D0)

\* a reduced dimension that is not held at zero
ClampZero_unclamped(x) == x

\* max(0, x) of get_reduced_section
ClampZero(x) == IF Raised(x) THEN x ELSE RMax(Zero, x)

\* a reduction that chars the protected top and spares the open one
ReducedBy_sides_swapped(self, d_char_, d_ef_) ==
    ReducedSection(
        ClampZero(RSub(self.sec.b, RMul(I(2), d_ef_))),
        ClampZero(IF self.fire.exposure = "three_sides"
                  THEN RSub(self.sec.h, RMul(I(2), d_ef_))
                  ELSE RSub(self.sec.h, d_ef_)),
        d_char_, d_ef_)

ReducedBy(self, d_char_, d_ef_) ==
    ReducedSection(
        ClampZero(RSub(self.sec.b, RMul(I(2), d_ef_))),
        ClampZero(IF self.fire.exposure = "three_sides"
                  THEN RSub(self.sec.h, d_ef_)
                  ELSE RSub(self.sec.h, RMul(I(2), d_ef_))),
        d_char_, d_ef_)

ReducedFrom(self, d_char_) == ReducedBy(self, d_char_, RAdd(d_char_, D0))

get_reduced_section(self) == ReducedFrom(self, d_char(self))

\* a fire strength modified by the kmod of the load case
fm_d_fi_with_kmod(self) ==
    RDiv(RMul(RMul(kmod(self.load), K_FI), self.mat.fm_k), GAMMA_M_FI)

fm_d_fi(self) == RDiv(RMul(RMul(KMOD_FI, K_FI), self.mat.fm_k), GAMMA_M_FI)
fv_d_fi(self) == RDiv(RMul(RMul(KMOD_FI, K_FI), self.mat.fv_k), GAMMA_M_FI)

\* eta_fi without its fallback
LoadReduction_unguarded(E_d_fi, E_d) == RDiv(E_d_fi, E_d)

\* eta_fi from E_d,fi and E_d
LoadReduction(E_d_fi, E_d) == IF RLt(Zero, E_d) THEN RDiv(E_d_fi, E_d) ELSE Dec(6, -1)

\* the simplified reduction factor of the docstring, whatever the loads
eta_fi_simplified(self) == Dec(6, -1)

\* a reduction factor over the characteristic load instead of the design load
eta_fi_over_characteristic(self) ==
    LoadReduction(RAdd(self.load.g_k, RMul(Dec(5, -1), self.load.q_k)), q_char(self.load))

eta_fi(self) ==
    LoadReduction(RAdd(self.load.g_k, RMul(Dec(5, -1), self.load.q_k)), q_Ed(self.load))

M_Ed_fi(self) == RMul(eta_fi(self), M_Ed(self.load))
V_Ed_fi(self) == RMul(eta_fi(self), V_Ed(self.load))

\* the result of a fire check on a valid reduced section
FireUtilization(name, utilization, stress, strength) ==
    IF Raised(utilization) THEN FireCheckRaised(name, utilization)
    ELSE FireCheckResult(name, utilization, stress, strength, RLeq(utilization, One))

FireStress(name, stress, strength) ==
    FireUtilization(name, RDiv(stress, strength), stress, strength)

\* a fire check that finds nothing to check on a section burnt away
FireCheckOn_consumed_unstressed(name, reduced, action, section_value, strength) ==
    IF Raised(reduced.b_fi) THEN FireCheckRaised(name, reduced.b_fi)
    ELSE IF ~is_valid(reduced) THEN FireCheckResult(name, Zero, Zero, strength, TRUE)
    ELSE FireStress(name, RDiv(action, section_value), strength)

\* a fire check: the gate on the reduced section, then stress against strength
FireCheckOn(name, reduced, action, section_value, strength) ==
    IF Raised(reduced.b_fi) THEN FireCheckRaised(name, reduced.b_fi)
    ELSE IF ~is_valid(reduced) THEN FireCheckResult(name, Inf, Inf, strength, FALSE)
    ELSE FireStress(name, RDiv(action, section_value), strength)

BendingFireOn(self, reduced) ==
    FireCheckOn("Ohyb (pozar)", reduced, RMul(M_Ed_fi(self), Dec(1, 6)),
                W_y_fi(reduced), fm_d_fi(self))

check_bending_fire(self) == BendingFireOn(self, get_reduced_section(self))

\* a fire shear check on the width reduced by kcr as well
ShearFireOn_with_kcr(self, reduced) ==
    FireCheckOn("Smyk (pozar)", reduced,
                RMul(RMul(Dec(15, -1), V_Ed_fi(self)), Dec(1, 3)),
                RMul(kcr(self.mat), A_fi(reduced)), fv_d_fi(self))

ShearFireOn(self, reduced) ==
    FireCheckOn("Smyk (pozar)", reduced,
                RMul(RMul(Dec(15, -1), V_Ed_fi(self)), Dec(1, 3)),
                A_fi(reduced), fv_d_fi(self))

check_shear_fire(self) == ShearFireOn(self, get_reduced_section(self))

\* the properties of a TimberFireCheck and its reduced section, each read once
FireCheckProperties(self) ==
    [beta |-> beta(self), d_char |-> d_char(self), d_ef |-> d_ef(self),
     reduced_section |-> get_reduced_section(self),
     eta_fi |-> eta_fi(self), M_Ed_fi |-> M_Ed_fi(self), V_Ed_fi |-> V_Ed_fi(self),
     fm_d_fi |-> fm_d_fi(self), fv_d_fi |-> fv_d_fi(self)]

FireParams(self, d_char_, eta) ==
    [duration |-> self.fire.duration, beta |-> beta(self),
     d_char |-> d_char_, d_ef |-> RAdd(d_char_, D0),
     eta_fi |-> eta, M_Ed_fi |-> RMul(eta, M_Ed(self.load)),
     V_Ed_fi |-> RMul(eta, V_Ed(self.load)),
     fm_d_fi |-> fm_d_fi(self), fv_d_fi |-> fv_d_fi(self)]

\* the dict of TimberFireCheck.run_all_checks; raised names the exception of
\* the first step that raised, and no dict is returned then
FireResults(self, reduced, bending, shear) ==
    [raised |-> IF Raised(reduced.b_fi) THEN reduced.b_fi.k
                ELSE IF bending.raised # "" THEN bending.raised
                ELSE shear.raised,
     reduced_section |-> reduced,
     bending |-> bending,
     shear |-> shear,
     all_passed |-> bending.passed /\ shear.passed,
     fire_params |-> FireParams(self, reduced.d_char, eta_fi(self)),
     original_section |-> [b |-> self.sec.b, h |-> self.sec.h]]

TimberFireCheck_run_all_checks(self) ==
    FireResults(self, get_reduced_section(self), check_bending_fire(self),
                check_shear_fire(self))

(***************************************************************************)
(* The inputs of the model                                                 *)
(***************************************************************************)
\* the fire durations are 30, 60, ... minutes, MaxFireSteps of them
MaxFireSteps == 4
\* the relative slendernesses probed are 0.00 .. MaxLambda/100
MaxLambda == 200

\* two catalog grades (EN 338 / EN 14080 values) and two records that the
\* unvalidated dataclass accepts as well
C24 == TimberMaterial("C24", "solid", I(24), I(4), I(11000), I(7400))
GL24h == TimberMaterial("GL24h", "glulam", I(24), Dec(35, -1), I(11500), I(9600))
Blank == TimberMaterial("blank", "solid", Zero, Zero, Zero, Zero)
OtherKind == TimberMaterial("LVL", "lvl", I(24), I(4), I(11000), I(7400))
CatalogMaterials == {C24, GL24h}
Materials == CatalogMaterials \cup {Blank, OtherKind}

\* the properties an entry of the file carries
PropsOf(m) == [fm_k |-> m.fm_k, fv_k |-> m.fv_k, E_0_mean |-> m.E_0_mean,
               E_0_05 |-> m.E_0_05]
C30 == TimberMaterial("C30", "solid", I(30), I(4), I(12000), I(8000))
GL28c == TimberMaterial("GL28c", "glulam", I(28), Dec(35, -1), I(12500), I(10400))
\* catalog files: every choice of solid grades and of glulam grades, where
\* "GL24h" may also be filed (with other values) among the solid grades
SolidEntries == [C24 |-> PropsOf(C24), C30 |-> PropsOf(C30), GL24h |-> PropsOf(C30)]
GlulamEntries == [GL24h |-> PropsOf(GL24h), GL28c |-> PropsOf(GL28c)]
Restricted(entries, names) == [name \in names |-> entries[name]]
CatalogFiles ==
    {[solid_timber |-> Restricted(SolidEntries, s), glulam |-> Restricted(GlulamEntries, g)] :
        s \in SUBSET DOMAIN SolidEntries, g \in SUBSET DOMAIN GlulamEntries}
RequestedNames == {"C24", "C30", "GL24h", "GL28c", "D70", ""}

\* what the constructors are handed: accepted and rejected dimensions and
\* loads, fields inside and outside their enumerations, and for the two
\* unvalidated arguments of TimberBeamCheck the usual value and zero
Widths == {I(0), I(60), I(160)}
Heights == {I(-200), I(200), I(400)}
PermanentLoads == {I(-1), I(0), I(2)}
VariableLoads == {I(-1), I(0), I(5)}
Spans == {I(0), I(5)}
ServiceClasses == {1, 3, 4}
LoadDurations == {"medium_term", "weekly"}
LoadCategories == {"cat_A", "cat_E"}
LefFactors == {Zero, One}
DeflectionLimits == {0, 300}
FireDurations == {30 * i : i \in 1..MaxFireSteps}
Exposures == {"three_sides", "four_sides", "one_side"}

None == [none |-> TRUE]

VARIABLES
    pc,         \* where the evaluation stands
    mat,        \* the TimberMaterial
    sec,        \* the RectangularSection, once constructed
    load,       \* the LoadCase, once constructed
    args,       \* the arguments of the last constructor call
    err,        \* the message of the ValueError a constructor raised
    check,      \* the TimberBeamCheck / TimberFireCheck object
    results,    \* what run_all_checks returned
    delta,      \* required_fire_resistance: the loop variable
    probes,     \* required_fire_resistance: the increments tried so far
    suggested,  \* required_fire_resistance: results["suggested_section"]
    lam,        \* the relative slenderness handed to kcrit_of
    kc,         \* the kcrit it returned
    data        \* the content of data/timber_classes.yaml

vars == <<pc, mat, sec, load, args, err, check, results, delta, probes, suggested, lam, kc,
         data>>

searchVars == <<delta, probes, suggested>>
kcritVars == <<lam, kc>>

(***************************************************************************)
(* One evaluation request (app.py): material, section, load case, then     *)
(* the structural or the fire checks                                       *)
(***************************************************************************)
Init ==
    /\ pc = "input"
    /\ mat \in Materials
    /\ sec = None /\ load = None /\ args = None /\ err = ""
    /\ check = None /\ results = None
    /\ delta = 0 /\ probes = <<>> /\ suggested = None
    /\ lam = Zero /\ kc = None
    /\ data = None

NewRectangularSection(b, h) ==
    /\ pc = "input" /\ sec = None
    /\ args' = [b |-> b, h |-> h]
    /\ LET msg == RectangularSection_post_init(b, h)
       IN IF msg # ""
          THEN /\ err' = msg
               /\ pc' = "rejected"
               /\ sec' = sec
          ELSE /\ sec' = RectangularSection(b, h)
               /\ UNCHANGED <<err, pc>>
    /\ UNCHANGED <<mat, load, check, results, searchVars, kcritVars, data>>

NewLoadCase(g_k, q_k, span, service_class, load_duration, load_category) ==
    /\ pc = "input" /\ sec # None /\ load = None
    /\ args' = [g_k |-> g_k, q_k |-> q_k, span |-> span]
    /\ LET msg == LoadCase_post_init(g_k, q_k, span)
       IN IF msg # ""
          THEN /\ err' = msg
               /\ pc' = "rejected"
               /\ load' = load
          ELSE /\ load' = LoadCase(g_k, q_k, span, service_class, load_duration,
                                   load_category)
               /\ pc' = "ready"
               /\ err' = err
    /\ UNCHANGED <<mat, sec, check, results, searchVars, kcritVars, data>>

BeamRunAllChecks(lef_factor, deflection_limit) ==
    /\ pc = "ready"
    /\ check' = TimberBeamCheck(mat, sec, load, lef_factor, deflection_limit)
    /\ results' = TimberBeamCheck_run_all_checks(check')
    /\ pc' = "beam_done"
    /\ UNCHANGED <<mat, sec, load, args, err, searchVars, kcritVars, data>>

FireRunAllChecks(duration, exposure, use_beta_n) ==
    /\ pc = "ready"
    /\ check' = TimberFireCheck(mat, sec, load,
                                FireExposure(duration, exposure, use_beta_n))
    /\ results' = TimberFireCheck_run_all_checks(check')
    /\ pc' = "fire_done"
    /\ UNCHANGED <<mat, sec, load, args, err, searchVars, kcritVars, data>>

Next ==
    \/ \E b \in Widths, h \in Heights : NewRectangularSection(b, h)
    \/ \E g_k \in PermanentLoads, q_k \in VariableLoads, span \in Spans,
          service_class \in ServiceClasses, load_duration \in LoadDurations,
          load_category \in LoadCategories :
            NewLoadCase(g_k, q_k, span, service_class, load_duration, load_category)
    \/ \E lef_factor \in LefFactors, deflection_limit \in DeflectionLimits :
            BeamRunAllChecks(lef_factor, deflection_limit)
    \/ \E duration \in FireDurations, exposure \in Exposures, use_beta_n \in BOOLEAN :
            FireRunAllChecks(duration, exposure, use_beta_n)

Spec == Init /\ [][Next]_vars

(***************************************************************************)
(* required_fire_resistance (fire_check.py): the check of the starting     *)
(* section, then one probe of the loop  for delta in range(10, 500, 10)    *)
(* per step                                                                *)
(***************************************************************************)
RANGE_START == 10
\* a range that ends after 500
RANGE_STOP_inclusive == 500 + 10
RANGE_STOP == 500
RANGE_STEP == 10

SearchSections ==
    {RectangularSection(I(60), I(200)), RectangularSection(I(160), I(400))}
SearchLoads ==
    {LoadCase(I(0), I(0), I(5), 1, "medium_term", "cat_A"),
     LoadCase(I(2), I(5), I(5), 1, "medium_term", "cat_A"),
     LoadCase(I(10), I(20), I(8), 1, "medium_term", "cat_A")}
TargetDurations == {30, 120, 400}
SearchExposures == {"three_sides", "four_sides"}

SearchInit ==
    /\ pc = "search_input"
    /\ mat \in CatalogMaterials
    /\ sec \in SearchSections
    /\ load \in SearchLoads
    /\ args = None /\ err = ""
    /\ check = None /\ results = None
    /\ delta = 0 /\ probes = <<>> /\ suggested = None
    /\ lam = Zero /\ kc = None
    /\ data = None

\* lines 308-313: the check of the section as given
SearchStart(target_duration, exposure) ==
    /\ pc = "search_input"
    /\ check' = TimberFireCheck(mat, sec, load,
                                FireExposure(target_duration, exposure, TRUE))
    /\ results' = TimberFireCheck_run_all_checks(check')
    /\ IF results'.raised # "" THEN pc' = "search_raised" /\ delta' = delta
       ELSE IF ~results'.all_passed /\ RANGE_START < RANGE_STOP
       THEN pc' = "probing" /\ delta' = RANGE_START
       ELSE pc' = "search_done" /\ delta' = delta
    /\ UNCHANGED <<mat, sec, load, args, err, probes, suggested, kcritVars, data>>

\* the section of one probe and what the fire checks say of it
TestSection(section, d) == RectangularSection(RAdd(section.b, I(d)), RAdd(section.h, I(d)))
TestResults(d) ==
    TimberFireCheck_run_all_checks(
        TimberFireCheck(mat, TestSection(sec, d), load, check.fire))

\* a loop body without its break
ProbeOutcome_without_break(test_results) ==
    /\ probes' = Append(probes, [delta |-> delta, passed |-> test_results.all_passed])
    /\ IF test_results.raised # ""
       THEN pc' = "search_raised" /\ UNCHANGED <<delta, suggested>>
       ELSE /\ suggested' = IF test_results.all_passed
                            THEN [b |-> TestSection(sec, delta).b,
                                  h |-> TestSection(sec, delta).h, delta |-> delta]
                            ELSE suggested
            /\ delta' = delta + RANGE_STEP
            /\ pc' = IF delta + RANGE_STEP < RANGE_STOP THEN "probing" ELSE "search_done"

\* what one pass of the loop body leaves behind, given the probe's results
ProbeOutcome(test_results) ==
    /\ probes' = Append(probes, [delta |-> delta, passed |-> test_results.all_passed])
    /\ IF test_results.raised # ""
       THEN pc' = "search_raised" /\ UNCHANGED <<delta, suggested>>
       ELSE IF test_results.all_passed
       THEN /\ suggested' = [b |-> TestSection(sec, delta).b,
                             h |-> TestSection(sec, delta).h, delta |-> delta]
            /\ pc' = "search_done"
            /\ delta' = delta
       ELSE /\ suggested' = suggested
            /\ delta' = delta + RANGE_STEP
            /\ pc' = IF delta + RANGE_STEP < RANGE_STOP THEN "probing" ELSE "search_done"

\* lines 315-328: one iteration of the loop
SearchProbe ==
    /\ pc = "probing"
    /\ ProbeOutcome(TestResults(delta))
    /\ UNCHANGED <<mat, sec, load, args, err, check, results, kcritVars, data>>

SearchNext ==
    \/ \E target_duration \in TargetDurations, exposure \in SearchExposures :
            SearchStart(target_duration, exposure)
    \/ SearchProbe

SearchSpec == SearchInit /\ [][SearchNext]_vars

\* what every step of the search does to the loop's control: SearchNext is
\* enabled exactly when pc is "search_input" or "probing", and each of its
\* steps changes pc or delta
LoopAdvances ==
    /\ pc \in {"search_input", "probing"}
    /\ pc' \in {"probing", "search_done", "search_raised"}
    /\ delta' \in {delta, delta + RANGE_STEP, RANGE_START}

\* the call runs on by itself: while it is not over, its next step is taken
FairSearchSpec == SearchSpec /\ WF_<<pc, delta>>(LoopAdvances)

(***************************************************************************)
(* _calc_kcrit as a function of the relative slenderness                   *)
(***************************************************************************)
Lambdas == {Dec(i, -2) : i \in 0..MaxLambda}

KcritInit ==
    /\ pc = "kcrit_input"
    /\ lam \in Lambdas
    /\ kc = None
    /\ mat = None /\ sec = None /\ load = None /\ args = None /\ err = ""
    /\ check = None /\ results = None
    /\ delta = 0 /\ probes = <<>> /\ suggested = None
    /\ data = None

EvalKcrit ==
    /\ pc = "kcrit_input"
    /\ kc' = kcrit_of(lam)
    /\ pc' = "kcrit_done"
    /\ UNCHANGED <<mat, sec, load, args, err, check, results, searchVars, lam, data>>

KcritNext == EvalKcrit

KcritSpec == KcritInit /\ [][KcritNext]_vars

(***************************************************************************)
(* get_material (materials.py): one lookup in the catalog file             *)
(***************************************************************************)
CatalogInit ==
    /\ pc = "catalog"
    /\ data \in CatalogFiles
    /\ mat = None /\ sec = None /\ load = None /\ args = None /\ err = ""
    /\ check = None /\ results = None
    /\ delta = 0 /\ probes = <<>> /\ suggested = None
    /\ lam = Zero /\ kc = None

GetMaterial(name) ==
    /\ pc = "catalog"
    /\ args' = [name |-> name]
    /\ LET r == get_material(data, name)
       IN IF r.raised # ""
          THEN /\ err' = r.raised \o ": " \o r.message
               /\ pc' = "lookup_raised"
               /\ mat' = mat
          ELSE /\ mat' = r.value
               /\ pc' = "lookup_done"
               /\ err' = err
    /\ UNCHANGED <<sec, load, check, results, searchVars, kcritVars, data>>

CatalogNext == \E name \in RequestedNames : GetMaterial(name)

CatalogSpec == CatalogInit /\ [][CatalogNext]_vars

(***************************************************************************)
(* The check methods called on the same objects, any number of times and   *)
(* in any order (timber_check.py, fire_check.py)                           *)
(***************************************************************************)
BeamCheckNames == {"check_bending", "check_shear", "check_lateral_torsional_buckling",
                   "check_deflection", "TimberBeamCheck.run_all_checks"}
FireCheckNames == {"check_bending_fire", "check_shear_fire",
                   "TimberFireCheck.run_all_checks"}
CheckNames == BeamCheckNames \cup FireCheckNames

\* the four input objects the two check objects refer to
Inputs == [mat |-> mat, sec |-> sec, load |-> load, fire |-> check.fire]

\* what the method of that name returns
CallBeam(name, self) ==
    CASE name = "check_bending" -> check_bending(self)
      [] name = "check_shear" -> check_shear(self)
      [] name = "check_lateral_torsional_buckling" -> check_lateral_torsional_buckling(self)
      [] name = "check_deflection" -> check_deflection(self)
      [] OTHER -> TimberBeamCheck_run_all_checks(self)
CallFire(name, self) ==
    CASE name = "check_bending_fire" -> check_bending_fire(self)
      [] name = "check_shear_fire" -> check_shear_fire(self)
      [] OTHER -> TimberFireCheck_run_all_checks(self)
Call(name, inputs, lef_factor, deflection_limit) ==
    IF name \in BeamCheckNames
    THEN CallBeam(name, TimberBeamCheck(inputs.mat, inputs.sec, inputs.load,
                                        lef_factor, deflection_limit))
    ELSE CallFire(name, TimberFireCheck(inputs.mat, inputs.sec, inputs.load,
                                        inputs.fire))

\* a fire check that keeps the reduced section in place of the section
InputsAfter_section_reduced(name, inputs) ==
    IF name \in FireCheckNames
    THEN LET reduced == get_reduced_section(
                 TimberFireCheck(inputs.mat, inputs.sec, inputs.load, inputs.fire))
         IN [inputs EXCEPT !.sec = RectangularSection(reduced.b_fi, reduced.h_fi)]
    ELSE inputs

\* the input objects after a call: no method assigns to a field of self.mat,
\* self.sec, self.load or self.fire, nor to self
InputsAfter(name, inputs) == inputs

CallsInit ==
    /\ pc = "calling"
    /\ \/ /\ mat = C24 /\ sec = RectangularSection(I(160), I(400))
          /\ check = [fire |-> FireExposure(30, "three_sides", TRUE),
                      lef_factor |-> One, deflection_limit |-> 300]
       \/ /\ mat = GL24h /\ sec = RectangularSection(I(60), I(200))
          /\ check = [fire |-> FireExposure(60, "four_sides", FALSE),
                      lef_factor |-> One, deflection_limit |-> 300]
    /\ load = LoadCase(I(2), I(5), I(5), 1, "medium_term", "cat_A")
    /\ results = [name \in CheckNames |-> None]
    /\ args = None /\ err = ""
    /\ delta = 0 /\ probes = <<>> /\ suggested = None
    /\ lam = Zero /\ kc = None
    /\ data = None

\* one call of one method; results keeps what the latest call of each method
\* returned, args the method called and whether it had been called before
CallCheck(name) ==
    /\ pc = "calling"
    /\ args' = [name |-> name, again |-> results[name] # None]
    /\ results' = [results EXCEPT ![name] =
                    Call(name, Inputs, check.lef_factor, check.deflection_limit)]
    /\ LET after == InputsAfter(name, Inputs)
       IN /\ mat' = after.mat
          /\ sec' = after.sec
          /\ load' = after.load
          /\ check' = [check EXCEPT !.fire = after.fire]
    /\ UNCHANGED <<pc, err, searchVars, kcritVars, data>>

CallsNext == \E name \in CheckNames : CallCheck(name)

CallsSpec == CallsInit /\ [][CallsNext]_vars

(***************************************************************************)
(* A LoadCase (loads.py): its construction from keyword arguments, then    *)
(* its properties                                                          *)
(***************************************************************************)
LoadValues == {I(0), Dec(15, -1), I(2), I(5)}
SpanValues == {I(0), I(5), Dec(62, -1)}
AllServiceClasses == {1, 2, 3, 4}
AllLoadDurations == {"permanent", "long_term", "medium_term", "short_term",
                     "instantaneous", "weekly"}
AllLoadCategories == {"cat_A", "cat_B", "cat_C", "cat_D", "cat_E", "cat_H", "snow",
                      "wind", "cat_F", ""}
RequiredKwargs == [{"g_k", "q_k"} -> LoadValues]
\* the three required fields alone, or every field
LoadKwargs ==
    {r @@ [span |-> span] : r \in RequiredKwargs, span \in SpanValues}
    \cup {r @@ [span |-> I(5), service_class |-> service_class,
                load_duration |-> load_duration, load_category |-> load_category] :
            r \in RequiredKwargs, service_class \in AllServiceClasses,
            load_duration \in AllLoadDurations, load_category \in AllLoadCategories}

LoadInit ==
    /\ pc = "load_input"
    /\ args \in LoadKwargs
    /\ mat = None /\ sec = None /\ load = None /\ err = ""
    /\ check = None /\ results = None
    /\ delta = 0 /\ probes = <<>> /\ suggested = None
    /\ lam = Zero /\ kc = None
    /\ data = None

ConstructLoadCase ==
    /\ pc = "load_input"
    /\ LET msg == LoadCase_post_init(args.g_k, args.q_k, args.span)
       IN IF msg # ""
          THEN /\ err' = msg
               /\ pc' = "load_rejected"
               /\ load' = load
          ELSE /\ load' = LoadCaseFrom(args)
               /\ pc' = "load_built"
               /\ err' = err
    /\ UNCHANGED <<mat, sec, args, check, results, searchVars, kcritVars, data>>

ReadLoadCase ==
    /\ pc = "load_built"
    /\ results' = LoadCaseProperties(load)
    /\ pc' = "load_read"
    /\ UNCHANGED <<mat, sec, load, args, err, check, searchVars, kcritVars, data>>

LoadNext == ConstructLoadCase \/ ReadLoadCase

LoadSpec == LoadInit /\ [][LoadNext]_vars

(***************************************************************************)
(* A TimberFireCheck (fire_check.py): its fire exposure built from keyword *)
(* arguments, then its properties and its reduced section                  *)
(***************************************************************************)
FireSections == {RectangularSection(I(60), I(200)), RectangularSection(I(100), I(100)),
                 RectangularSection(I(160), I(400))}
FireLoads == {LoadCase(r.g_k, r.q_k, I(5), 1, "medium_term", "cat_A") : r \in RequiredKwargs}
\* the duration alone, or every field
FireKwargs ==
    {[duration |-> duration] : duration \in FireDurations}
    \cup {[duration |-> duration, exposure |-> exposure, use_beta_n |-> use_beta_n] :
            duration \in FireDurations, exposure \in Exposures, use_beta_n \in BOOLEAN}

FireInit ==
    /\ pc = "fire_input"
    /\ mat \in CatalogMaterials
    /\ sec \in FireSections
    /\ load \in FireLoads
    /\ args \in FireKwargs
    /\ err = "" /\ check = None /\ results = None
    /\ delta = 0 /\ probes = <<>> /\ suggested = None
    /\ lam = Zero /\ kc = None
    /\ data = None

ReadFireCheck ==
    /\ pc = "fire_input"
    /\ check' = TimberFireCheck(mat, sec, load, FireExposureFrom(args))
    /\ results' = FireCheckProperties(check')
    /\ pc' = "fire_read"
    /\ UNCHANGED <<mat, sec, load, args, err, searchVars, kcritVars, data>>

FireNext == ReadFireCheck

FireSpec == FireInit /\ [][FireNext]_vars

(***************************************************************************)
(* A TimberBeamCheck (timber_check.py): built with or without its optional *)
(* arguments, then its buckling helpers and its checks                     *)
(***************************************************************************)
BeamSections == {RectangularSection(I(60), I(200)), RectangularSection(I(60), I(240)),
                 RectangularSection(I(100), I(100)), RectangularSection(I(160), I(400))}
BeamLoads ==
    {LoadCase(r.g_k, r.q_k, I(5), service_class, "medium_term", load_category) :
        r \in RequiredKwargs, service_class \in {1, 3}, load_category \in {"cat_A", "cat_E"}}
\* no optional argument, or both
BeamKwargs ==
    {<<>>} \cup {[lef_factor |-> lef_factor, deflection_limit |-> deflection_limit] :
                    lef_factor \in {Dec(5, -1), Dec(9, -1), One, Dec(15, -1)}, deflection_limit \in {250, 300}}

BeamInit ==
    /\ pc = "beam_input"
    /\ mat \in CatalogMaterials
    /\ sec \in BeamSections
    /\ load \in BeamLoads
    /\ args \in BeamKwargs
    /\ err = "" /\ check = None /\ results = None
    /\ delta = 0 /\ probes = <<>> /\ suggested = None
    /\ lam = Zero /\ kc = None
    /\ data = None

ReadBeamCheck ==
    /\ pc = "beam_input"
    /\ check' = TimberBeamCheckFrom(mat, sec, load, args)
    /\ results' = BeamCheckProperties(check')
    /\ pc' = "beam_read"
    /\ UNCHANGED <<mat, sec, load, args, err, searchVars, kcritVars, data>>

BeamNext == ReadBeamCheck

BeamSpec == BeamInit /\ [][BeamNext]_vars

(***************************************************************************)
(* A RectangularSection (sections.py): its construction, then its          *)
(* properties                                                              *)
(***************************************************************************)
\* widths and heights in mm: 0, 20, ..., 240, two between and one not whole
SectionDimensions == {I(20 * i) : i \in 0..12} \cup {I(45), I(115), Dec(125, -1)}

SectionInit ==
    /\ pc = "section_input"
    /\ args \in [{"b", "h"} -> SectionDimensions]
    /\ mat = None /\ sec = None /\ load = None /\ err = ""
    /\ check = None /\ results = None
    /\ delta = 0 /\ probes = <<>> /\ suggested = None
    /\ lam = Zero /\ kc = None
    /\ data = None

ConstructSection ==
    /\ pc = "section_input"
    /\ LET msg == RectangularSection_post_init(args.b, args.h)
       IN IF msg # ""
          THEN /\ err' = msg
               /\ pc' = "section_rejected"
               /\ sec' = sec
          ELSE /\ sec' = RectangularSection(args.b, args.h)
               /\ pc' = "section_built"
               /\ err' = err
    /\ UNCHANGED <<mat, load, args, check, results, searchVars, kcritVars, data>>

ReadSection ==
    /\ pc = "section_built"
    /\ results' = SectionProperties(sec)
    /\ pc' = "section_read"
    /\ UNCHANGED <<mat, sec, load, args, err, check, searchVars, kcritVars, data>>

SectionNext == ConstructSection \/ ReadSection

SectionSpec == SectionInit /\ [][SectionNext]_vars

(***************************************************************************)
(* Two evaluation requests on the same material, section and loads         *)
(* (app.py): each builds its LoadCase, its TimberBeamCheck and its         *)
(* TimberFireCheck and runs the fire checks                                *)
(***************************************************************************)
PairSections == {RectangularSection(I(60), I(200)), RectangularSection(I(160), I(400))}
PairLoads == {[g_k |-> I(0), q_k |-> I(0)], [g_k |-> I(2), q_k |-> I(5)],
              [g_k |-> Dec(15, -1), q_k |-> I(0)]}
\* what a request may choose beside the fire exposure
PairSettings ==
    {[service_class |-> 1, load_duration |-> "medium_term", load_category |-> "cat_A",
      lef_factor |-> One, deflection_limit |-> 300],
     [service_class |-> 2, load_duration |-> "short_term", load_category |-> "cat_C",
      lef_factor |-> Dec(15, -1), deflection_limit |-> 200],
     [service_class |-> 3, load_duration |-> "permanent", load_category |-> "cat_E",
      lef_factor |-> Dec(5, -1), deflection_limit |-> 250]}
PairDurations == {0, 30, 60, 120}
PairExposures == {"three_sides", "four_sides"}

PairInit ==
    /\ pc = "pair_input"
    /\ mat \in CatalogMaterials
    /\ sec \in PairSections
    /\ args \in {r @@ [use_beta_n |-> use_beta_n] : r \in PairLoads, use_beta_n \in BOOLEAN}
    /\ load = None /\ err = "" /\ check = <<>> /\ results = <<>>
    /\ delta = 0 /\ probes = <<>> /\ suggested = None
    /\ lam = Zero /\ kc = None
    /\ data = None

\* the objects of one request: lines 314-327 and 416-420 of app.py
RequestObjects(settings, duration, exposure) ==
    LET load_case == LoadCase(args.g_k, args.q_k, I(5), settings.service_class,
                              settings.load_duration, settings.load_category)
    IN [beam |-> TimberBeamCheck(mat, sec, load_case, settings.lef_factor,
                                 settings.deflection_limit),
        fire |-> TimberFireCheck(mat, sec, load_case,
                                 FireExposure(duration, exposure, args.use_beta_n))]

\* one request: check and results keep the objects and the fire results of
\* the requests so far
FireRequest(settings, duration, exposure) ==
    /\ pc \in {"pair_input", "pair_first"}
    /\ LET objects == RequestObjects(settings, duration, exposure)
       IN /\ check' = Append(check, objects)
          /\ results' = Append(results, TimberFireCheck_run_all_checks(objects.fire))
    /\ pc' = IF pc = "pair_input" THEN "pair_first" ELSE "pair_both"
    /\ UNCHANGED <<mat, sec, load, args, err, searchVars, kcritVars, data>>

PairNext ==
    \E settings \in PairSettings, duration \in PairDurations, exposure \in PairExposures :
        FireRequest(settings, duration, exposure)

PairSpec == PairInit /\ [][PairNext]_vars

(***************************************************************************)
(* Properties                                                              *)
(***************************************************************************)
\* two values are the same number
Same(x, y) == x.k = y.k /\ (IsNum(x) => Cmp(x, y) = 0)

SectionCall == args # None /\ "b" \in DOMAIN args
LoadCall == args # None /\ "g_k" \in DOMAIN args

BeamDone == pc = "beam_done"
FireDone == pc = "fire_done"
Consumed(red) == RLeq(red.b_fi, Zero) \/ RLeq(red.h_fi, Zero)
PassedIffWithinOne(c) == c.passed <=> RLeq(c.utilization, One)
ReportsConsumed(c, strength) ==
    /\ c.raised = "" /\ c.utilization = Inf /\ c.stress_d_fi = Inf
    /\ Same(c.strength_d_fi, strength) /\ ~c.passed

\* C1: when the reduced width or depth is <= 0, is_valid is false, both
\* fire checks return utilization = +inf, stress = +inf, strength = the
\* nominal fire design strength (1.25 * fm_k resp. 1.25 * fv_k) and passed =
\* false, and run_all_checks returns its record with all_passed = false
\* without raising; and all_passed = true implies a valid reduced section.
C1_ConsumedSectionFails ==
    FireDone /\ ~Raised(results.reduced_section.b_fi) =>
        /\ Consumed(results.reduced_section) =>
            /\ ~is_valid(results.reduced_section)
            /\ results.raised = ""
            /\ ReportsConsumed(results.bending, RMul(Dec(125, -2), check.mat.fm_k))
            /\ ReportsConsumed(results.shear, RMul(Dec(125, -2), check.mat.fv_k))
            /\ results.all_passed = FALSE
        /\ results.all_passed =>
            /\ RLt(Zero, results.reduced_section.b_fi)
            /\ RLt(Zero, results.reduced_section.h_fi)

\* a 60 mm wide section burnt through, reported as failing
C1_Witness_BurntThrough ==
    /\ FireDone /\ results.raised = ""
    /\ Same(results.reduced_section.b_fi, Zero)
    /\ RLt(Zero, results.reduced_section.h_fi)
    /\ results.bending.utilization = Inf /\ ~results.all_passed

\* C2: in every record run_all_checks returns, each check's passed flag is
\* true exactly when its utilization is <= 1.0; the utilization of the
\* deflection check is w_fin / w_limit; a consumed fire section has
\* utilization +inf and passed = false.
C2_PassedIffUtilization ==
    /\ BeamDone /\ results.raised = "" =>
        /\ PassedIffWithinOne(results.bending)
        /\ PassedIffWithinOne(results.shear)
        /\ PassedIffWithinOne(results.lateral_torsional_buckling)
        /\ Same(DeflectionResult_utilization(results.deflection),
                RDiv(results.deflection.w_fin, results.deflection.w_limit))
        /\ results.deflection.passed <=>
               RLeq(DeflectionResult_utilization(results.deflection), One)
    /\ FireDone /\ results.raised = "" =>
        /\ PassedIffWithinOne(results.bending)
        /\ PassedIffWithinOne(results.shear)
        /\ Consumed(results.reduced_section) =>
            /\ results.bending.utilization = Inf /\ ~results.bending.passed
            /\ results.shear.utilization = Inf /\ ~results.shear.passed

\* bending within its strength while the final deflection exceeds the limit
\* that the instantaneous one keeps
C2_Witness_MixedVerdicts ==
    /\ BeamDone /\ results.raised = ""
    /\ results.bending.passed /\ ~results.deflection.passed
    /\ RLeq(results.deflection.w_inst, results.deflection.w_limit)

NonZero(x) == IsNum(x) /\ x.n # 0
NeverDividedByZero(c) == c.raised # "ZeroDivisionError"

\* C3 (as amended): with nonzero fm_k, fv_k, E_0_mean and E_0_05, an
\* accepted section and load case, lef_factor # 0 and deflection_limit # 0,
\* no structural check and no fire check divides by zero: the eta_fi
\* fallback and the validity gate cover what is left.
C3_NoDivisionByZeroInDomain ==
    /\ BeamDone /\ NonZero(check.mat.fm_k) /\ NonZero(check.mat.fv_k)
       /\ NonZero(check.mat.E_0_mean) /\ NonZero(check.mat.E_0_05)
       /\ NonZero(check.lef_factor) /\ check.deflection_limit # 0 =>
        /\ NeverDividedByZero(results.bending)
        /\ NeverDividedByZero(results.shear)
        /\ NeverDividedByZero(results.lateral_torsional_buckling)
        /\ NeverDividedByZero(results.deflection)
        /\ DeflectionResult_utilization(results.deflection).k # "ZeroDivisionError"
    /\ FireDone /\ NonZero(check.mat.fm_k) /\ NonZero(check.mat.fv_k) =>
        /\ NeverDividedByZero(results.bending)
        /\ NeverDividedByZero(results.shear)
        /\ results.fire_params.eta_fi.k # "ZeroDivisionError"
        /\ results.raised # "ZeroDivisionError"

\* no load at all on a section that survives the fire: eta_fi falls back
C3_Witness_FallbackTaken ==
    /\ FireDone /\ results.raised = ""
    /\ Same(q_Ed(check.load), Zero)
    /\ Same(results.fire_params.eta_fi, Dec(6, -1))
    /\ is_valid(results.reduced_section)
    /\ results.all_passed

\* C3 (as claimed): for every material record, lef_factor and
\* deflection_limit, no check divides by zero.
C3_Claimed_NoDivisionByZeroAnywhere ==
    /\ BeamDone =>
        /\ NeverDividedByZero(results.bending)
        /\ NeverDividedByZero(results.shear)
        /\ NeverDividedByZero(results.lateral_torsional_buckling)
        /\ NeverDividedByZero(results.deflection)
    /\ FireDone =>
        /\ NeverDividedByZero(results.bending)
        /\ NeverDividedByZero(results.shear)

LoadDurationClasses ==
    {"permanent", "long_term", "medium_term", "short_term", "instantaneous"}

KcritDone == pc = "kcrit_done"

\* C5 (as amended): at lambda_rel_m = 0.75 the first branch gives 1.0, which
\* _calc_kcrit returns, and the second gives 0.9975 (a step of 0.0025); at
\* lambda_rel_m = 1.4 the second branch gives 0.51, which _calc_kcrit
\* returns, and the third gives 1/1.96, above it by less than 0.001.
C5_KcritAtBoundaries ==
    KcritDone =>
        /\ Same(lam, Dec(75, -2)) =>
            /\ Same(kc, One)
            /\ Same(kcrit_mid(lam), Dec(9975, -4))
        /\ Same(lam, Dec(14, -1)) =>
            /\ Same(kc, Dec(51, -2))
            /\ Same(kcrit_high(lam), RDiv(I(100), I(196)))
            /\ RLt(kc, kcrit_high(lam))
            /\ RLt(RSub(kcrit_high(lam), kc), Dec(1, -3))

C5_Witness_AtLowerBoundary ==
    KcritDone /\ Same(lam, Dec(75, -2)) /\ Same(kc, One)

\* C5 (as claimed): at 0.75 the first and the second branch both give 1.0,
\* and at 1.4 the second and the third branch agree within 0.001.
C5_Claimed_Continuous ==
    KcritDone =>
        /\ Same(lam, Dec(75, -2)) =>
            Same(kcrit_low, One) /\ Same(kcrit_mid(lam), One)
        /\ Same(lam, Dec(14, -1)) =>
            /\ RLt(RSub(kcrit_high(lam), kcrit_mid(lam)), Dec(1, -3))
            /\ RLt(RSub(kcrit_mid(lam), kcrit_high(lam)), Dec(1, -3))

\* C6: _calc_kcrit returns 1.0 for lambda_rel_m <= 0.75, 1.56 - 0.75 *
\* lambda_rel_m for 0.75 < lambda_rel_m <= 1.4 and 1 / lambda_rel_m^2 above
\* 1.4; both boundaries belong to the lower branch.
C6_KcritThreeBranches ==
    KcritDone =>
        IF RLeq(lam, Dec(75, -2)) THEN Same(kc, One)
        ELSE IF RLeq(lam, Dec(14, -1))
        THEN Same(kc, RSub(Dec(156, -2), RMul(Dec(75, -2), lam)))
        ELSE Same(kc, RDiv(One, RMul(lam, lam)))

\* just above 1.4 the elastic branch has taken over
C6_Witness_ElasticBranch ==
    KcritDone /\ Same(lam, Dec(141, -2)) /\ Same(kc, RDiv(I(10000), I(19881)))

SearchOver == pc \in {"search_done", "search_raised"}
Probed(d) == \E i \in 1..Len(probes) : probes[i].delta = d

\* the probes made so far are 10, 20, ... in this order, at most 49 of them,
\* none but the last one passing; without a passing probe the search ends
\* only after the 49th, the probe of 490
ProbesAreTheMultiplesOfTen ==
    /\ Len(probes) <= 49
    /\ \A i \in 1..Len(probes) : probes[i].delta = 10 * i
    /\ \A i \in 1..(Len(probes) - 1) : ~probes[i].passed
    /\ pc = "probing" =>
        /\ delta = 10 * (Len(probes) + 1)
        /\ ~results.all_passed
        /\ \A i \in 1..Len(probes) : ~probes[i].passed
    /\ pc = "search_done" /\ ~results.all_passed /\ suggested = None =>
        Len(probes) = 49 /\ Probed(490) /\ ~Probed(500)
    /\ results # None /\ results.raised = "" /\ results.all_passed => probes = <<>>

\* C7 (as amended): when the starting section fails, the search probes
\* delta = 10, 20, ... in steps of 10 up to 490 (500 is the exclusive end
\* of the range), in increasing order until one passes both fire checks,
\* and it always ends, after at most 49 probes.
C7_SearchProbesUpTo490 == []ProbesAreTheMultiplesOfTen /\ <>SearchOver

\* no enlargement up to 490 passes: the search gives up after 49 probes
C7_Witness_Exhausted ==
    /\ pc = "search_done" /\ suggested = None
    /\ Len(probes) = 49 /\ probes[49].delta = 490 /\ ~probes[49].passed

\* C7 (as claimed): every multiple of 10 from 10 up to 500 is tried until
\* one passes, so a search that ends without a passing probe has tried 500.
C7_Claimed_ProbesUpTo500 ==
    pc = "search_done" /\ ~results.all_passed /\ suggested = None => Probed(500)

\* both fire checks on the section enlarged by d
PassesFire(d) ==
    TimberFireCheck_run_all_checks(
        TimberFireCheck(mat,
                        RectangularSection(RAdd(sec.b, I(d)), RAdd(sec.h, I(d))),
                        load, check.fire)).all_passed

\* C8: suggested_section carries the smallest probed delta whose section
\* (b + delta, h + delta) passes both fire checks; it is present only when
\* the starting section fails and a probe passes; when no probe passes
\* there is none.
C8_SuggestionIsMinimal ==
    /\ suggested # None =>
        /\ pc = "search_done" /\ ~results.all_passed
        /\ suggested.delta \in {10 * i : i \in 1..49}
        /\ Same(suggested.b, RAdd(sec.b, I(suggested.delta)))
        /\ Same(suggested.h, RAdd(sec.h, I(suggested.delta)))
        /\ PassesFire(suggested.delta)
        /\ \A i \in 1..49 : 10 * i < suggested.delta => ~PassesFire(10 * i)
    /\ pc = "search_done" /\ suggested = None =>
        results.all_passed \/ \A i \in 1..49 : ~PassesFire(10 * i)

\* a suggestion found after smaller enlargements failed
C8_Witness_SuggestionAfterFailures ==
    /\ pc = "search_done" /\ suggested # None
    /\ suggested.delta >= 30 /\ Len(probes) >= 3

\* C9: a LoadCase is constructed exactly when g_k >= 0, q_k >= 0 and
\* span > 0 (zero loads accepted, zero span rejected); otherwise the call
\* fails with the message of the first violated field in the order
\* permanent load, variable load, span.
C9_LoadCaseValidation ==
    LoadCall =>
        IF RLt(args.g_k, Zero)
        THEN pc = "rejected" /\ load = None
             /\ err = "Stale zatizeni g_k nemuze byt zaporne"
        ELSE IF RLt(args.q_k, Zero)
        THEN pc = "rejected" /\ load = None
             /\ err = "Promenne zatizeni q_k nemuze byt zaporne"
        ELSE IF ~RLt(Zero, args.span)
        THEN pc = "rejected" /\ load = None /\ err = "Rozpeti musi byt kladne"
        ELSE /\ pc # "rejected" /\ err = "" /\ load # None
             /\ load.g_k = args.g_k /\ load.q_k = args.q_k /\ load.span = args.span

\* both loads negative and the span zero: the permanent load is named
C9_Witness_FirstFieldNamed ==
    /\ LoadCall /\ pc = "rejected"
    /\ RLt(args.g_k, Zero) /\ RLt(args.q_k, Zero) /\ Same(args.span, Zero)
    /\ err = "Stale zatizeni g_k nemuze byt zaporne"

\* C10: a RectangularSection is constructed exactly when b > 0 and h > 0;
\* otherwise the call fails before anything is computed, and no section
\* with a non-positive dimension ever exists.
C10_SectionValidation ==
    /\ sec # None => RLt(Zero, sec.b) /\ RLt(Zero, sec.h)
    /\ SectionCall =>
        IF RLt(Zero, args.b) /\ RLt(Zero, args.h)
        THEN pc = "input" /\ err = "" /\ sec = RectangularSection(args.b, args.h)
        ELSE /\ pc = "rejected" /\ sec = None /\ results = None
             /\ err = "Rozmery prurezu musi byt kladne"

\* a zero width with a positive depth is rejected
C10_Witness_ZeroWidthRejected ==
    /\ SectionCall /\ pc = "rejected" /\ sec = None
    /\ Same(args.b, Zero) /\ RLt(Zero, args.h)

LookedUp == pc \in {"lookup_done", "lookup_raised"}
GradeNames(file) == DOMAIN file.solid_timber \cup DOMAIN file.glulam
\* the records the file holds under a name, one per section that has it
RecordsUnder(file, name) ==
    {MaterialOf(name, "solid", file.solid_timber[n]) : n \in DOMAIN file.solid_timber \cap {name}}
    \cup {MaterialOf(name, "glulam", file.glulam[n]) : n \in DOMAIN file.glulam \cap {name}}
LookupAnswers ==
    LookedUp =>
        IF args.name \in GradeNames(data)
        THEN /\ pc = "lookup_done"
             /\ mat.name = args.name
             /\ mat \in RecordsUnder(data, args.name)
        ELSE /\ pc = "lookup_raised"
             /\ err = "ValueError: Neznama trida dreva: " \o args.name
             /\ mat = None

\* C11: get_material(name) returns the catalog record whose grade name
\* equals the requested name when the name is in the catalog, and fails with
\* the not-found ValueError when it is absent; the lookup never changes the
\* catalog.
C11_LookupByName == []LookupAnswers /\ [][data' = data]_vars

\* a name filed in both sections is found, and a name filed nowhere is not
C11_Witness_FoundInBothSections ==
    /\ pc = "lookup_done"
    /\ args.name = "GL24h"
    /\ "GL24h" \in DOMAIN data.solid_timber \cap DOMAIN data.glulam
    /\ mat.timber_type = "glulam"


InputsUnchanged == mat' = mat /\ sec' = sec /\ load' = load /\ check' = check
\* a method that has returned before returns the same again
ReturnsAsBefore ==
    \A name \in CheckNames :
        results[name] # None => results'[name] = results[name]

LoadRead == pc = "load_read"
WorkedLoad == Same(load.g_k, I(2)) /\ Same(load.q_k, I(5)) /\ Same(load.span, I(5))

\* C13: for any g >= 0, q >= 0, L > 0 the ULS design load is
\* q_Ed = 1.35 g + 1.5 q, the design moment M_Ed = q_Ed L^2 / 8 and the
\* design shear V_Ed = q_Ed L / 2; for g = 2, q = 5, L = 5 these are 10.2
\* kN/m, 31.875 kNm and 25.5 kN.
C13_DesignForces ==
    LoadRead =>
        /\ Same(RMul(I(100), results.q_Ed),
                RAdd(RMul(I(135), load.g_k), RMul(I(150), load.q_k)))
        /\ Same(RMul(I(8), results.M_Ed),
                RMul(RMul(results.q_Ed, load.span), load.span))
        /\ Same(RMul(I(2), results.V_Ed), RMul(results.q_Ed, load.span))
        /\ WorkedLoad =>
            /\ Same(results.q_Ed, Dec(102, -1))
            /\ Same(results.M_Ed, Dec(31875, -3))
            /\ Same(results.V_Ed, Dec(255, -1))

\* the load case of the worked example has been built and read
C13_Witness_WorkedExample == LoadRead /\ WorkedLoad /\ Same(results.M_Ed, Dec(31875, -3))


FireRead == pc = "fire_read"

\* C14: eta_fi = (g_k + 0.5 q_k) / (1.35 g_k + 1.5 q_k) when the ULS design
\* load is > 0 and 0.6 when it is zero; it never divides by zero for any
\* accepted LoadCase.
C14_LoadReductionFactor ==
    FireRead =>
        LET g == check.load.g_k
            q == check.load.q_k
            uls == RAdd(RMul(Dec(135, -2), g), RMul(Dec(15, -1), q))
        IN /\ results.eta_fi.k = "num"
           /\ IF Sign(uls) > 0
              THEN Same(RMul(results.eta_fi, uls), RAdd(g, RMul(Dec(5, -1), q)))
              ELSE Same(results.eta_fi, Dec(6, -1))

\* the loads 2 and 5 have been reduced by 4.5 / 10.2
C14_Witness_RatioOfWorkedLoad ==
    /\ FireRead
    /\ Same(check.load.g_k, I(2)) /\ Same(check.load.q_k, I(5))
    /\ Same(results.eta_fi, RDiv(Dec(45, -1), Dec(102, -1)))


\* the charring rate of the table of EN 1995-1-2, by kind of timber and rate
TabulatedRate(timber_type, use_beta_n) ==
    CASE timber_type = "solid" /\ use_beta_n -> Dec(8, -1)
      [] timber_type = "solid" /\ ~use_beta_n -> Dec(65, -2)
      [] timber_type = "glulam" /\ use_beta_n -> Dec(7, -1)
      [] timber_type = "glulam" /\ ~use_beta_n -> Dec(65, -2)
AtLeastZero(x) == IF Sign(x) < 0 THEN Zero ELSE x
WorkedFireCase ==
    /\ check.mat.timber_type = "solid"
    /\ check.fire = [duration |-> 30, exposure |-> "three_sides", use_beta_n |-> TRUE]
    /\ Same(check.sec.b, I(160)) /\ Same(check.sec.h, I(400))

\* C15: the effective charring depth is d_ef = beta * duration + 7 mm with
\* beta from the {solid, glulam} x {normative, one-dimensional} table (the
\* normative rate by default); b_fi = max(0, b - 2 d_ef) for both exposure
\* patterns, h_fi = max(0, h - d_ef) for three sides and max(0, h - 2 d_ef)
\* for four sides; neither reduced dimension is ever negative; solid timber,
\* normative rate, 30 min, three sides, 160 x 400 gives d_char = 24,
\* d_ef = 31, b_fi = 98, h_fi = 369.
C15_ReducedSection ==
    FireRead =>
        LET rate == TabulatedRate(check.mat.timber_type, check.fire.use_beta_n)
            depth == RAdd(RMul(rate, I(check.fire.duration)), I(7))
            red == results.reduced_section
        IN /\ "use_beta_n" \notin DOMAIN args => check.fire.use_beta_n
           /\ Same(results.beta, rate)
           /\ Same(results.d_ef, depth) /\ Same(red.d_ef, depth)
           /\ Same(red.b_fi, AtLeastZero(RSub(check.sec.b, RMul(I(2), depth))))
           /\ check.fire.exposure = "three_sides" =>
                Same(red.h_fi, AtLeastZero(RSub(check.sec.h, depth)))
           /\ check.fire.exposure = "four_sides" =>
                Same(red.h_fi, AtLeastZero(RSub(check.sec.h, RMul(I(2), depth))))
           /\ Sign(red.b_fi) >= 0 /\ Sign(red.h_fi) >= 0
           /\ WorkedFireCase =>
                /\ Same(red.d_char, I(24)) /\ Same(red.d_ef, I(31))
                /\ Same(red.b_fi, I(98)) /\ Same(red.h_fi, I(369))

\* a width burnt away is held at zero beside a depth that is left
C15_Witness_WidthHeldAtZero ==
    /\ FireRead
    /\ Same(check.sec.b, I(60))
    /\ Same(results.reduced_section.b_fi, Zero)
    /\ Sign(results.reduced_section.h_fi) > 0


DurationClasses == {"permanent", "long_term", "medium_term", "short_term", "instantaneous"}
\* tab. 3.1 of EN 1995-1-1 in hundredths, by service class and duration class
TabulatedKmod(service_class, load_duration) ==
    IF service_class \in {1, 2}
    THEN CASE load_duration = "permanent" -> 60
           [] load_duration = "long_term" -> 70
           [] load_duration = "medium_term" -> 80
           [] load_duration = "short_term" -> 90
           [] load_duration = "instantaneous" -> 110
    ELSE CASE load_duration = "permanent" -> 50
           [] load_duration = "long_term" -> 55
           [] load_duration = "medium_term" -> 65
           [] load_duration = "short_term" -> 70
           [] load_duration = "instantaneous" -> 90
TabulatedKdef(service_class) ==
    CASE service_class = 1 -> 60 [] service_class = 2 -> 80 [] service_class = 3 -> 200
InTables == load.service_class \in {1, 2, 3} /\ load.load_duration \in DurationClasses
\* the kmod a load case of that service class, otherwise as load, has
KmodIn(service_class) == kmod([load EXCEPT !.service_class = service_class])

\* C16: for every service class in {1, 2, 3} and every duration class, kmod
\* is exactly the entry of the 15-entry table; classes 1 and 2 have the same
\* kmod and class 3 a strictly lower one for every duration; kdef is 0.6,
\* 0.8, 2.0 for the classes 1, 2, 3.
C16_KmodKdefTables ==
    LoadRead /\ InTables =>
        /\ Same(results.kmod,
                Dec(TabulatedKmod(load.service_class, load.load_duration), -2))
        /\ Same(results.kdef, Dec(TabulatedKdef(load.service_class), -2))
        /\ Same(KmodIn(1), KmodIn(2))
        /\ RLt(KmodIn(3), KmodIn(1))

\* an instantaneous load in service class 3 has been read
C16_Witness_Class3Instantaneous ==
    /\ LoadRead
    /\ load.service_class = 3 /\ load.load_duration = "instantaneous"
    /\ Same(results.kmod, Dec(9, -1)) /\ Same(results.kdef, I(2))

\* the psi_2 of the table of EN 1990 in tenths, by load category
TabulatedPsi2(load_category) ==
    CASE load_category \in {"cat_A", "cat_B"} -> 3
      [] load_category \in {"cat_C", "cat_D"} -> 6
      [] load_category = "cat_E" -> 8
      [] load_category \in {"cat_H", "snow", "wind"} -> 0
      [] OTHER -> 3

\* C17: the psi_2 lookup is total: the table's value for a category of the
\* table, 0.3 for any other, never a failure; a LoadCase built without a
\* category has the residential category cat_A, whose psi_2 is 0.3.
C17_Psi2Total ==
    LoadRead =>
        /\ results.psi_2.k = "num"
        /\ Same(results.psi_2, Dec(TabulatedPsi2(load.load_category), -1))
        /\ "load_category" \notin DOMAIN args =>
            load.load_category = "cat_A" /\ Same(results.psi_2, Dec(3, -1))

\* a category the table does not know has been served the default
C17_Witness_UnknownCategory ==
    /\ LoadRead
    /\ load.load_category = "cat_F"
    /\ Same(results.psi_2, Dec(3, -1))


BeamReturned == BeamDone /\ results.raised = ""
UlsChecks == {results.bending, results.shear, results.lateral_torsional_buckling}

\* C18: in the dict of TimberBeamCheck.run_all_checks all_passed is the
\* conjunction of the passed flags of the four checks; max_uls_utilization is
\* the largest of the bending, shear and buckling utilizations (the
\* deflection is left out), so that all_passed implies max_uls_utilization
\* <= 1.0; the kcrit and lambda_rel_m reported are those the buckling check
\* has used.
C18_BeamSummary ==
    BeamReturned =>
        /\ results.all_passed <=>
            /\ results.bending.passed /\ results.shear.passed
            /\ results.lateral_torsional_buckling.passed /\ results.deflection.passed
        /\ \A c \in UlsChecks : RLeq(c.utilization, results.max_uls_utilization)
        /\ \E c \in UlsChecks : Same(c.utilization, results.max_uls_utilization)
        /\ results.all_passed => RLeq(results.max_uls_utilization, One)
        /\ Same(results.design_values.kcrit, kcrit_of(results.design_values.lambda_rel_m))
        /\ Same(results.lateral_torsional_buckling.strength_d,
                RMul(results.design_values.kcrit, results.design_values.fm_d))
        /\ Same(results.lateral_torsional_buckling.utilization,
                RDiv(results.lateral_torsional_buckling.stress_d,
                     RMul(results.design_values.kcrit, results.design_values.fm_d)))

\* the three ULS checks pass and the deflection alone fails the beam, while
\* the largest ULS utilization stays within one
C18_Witness_DeflectionAloneFails ==
    /\ BeamReturned
    /\ \A c \in UlsChecks : c.passed
    /\ ~results.deflection.passed /\ ~results.all_passed
    /\ RLeq(results.max_uls_utilization, One)


FireReturnedValid ==
    /\ FireDone /\ results.raised = ""
    /\ Sign(results.reduced_section.b_fi) > 0 /\ Sign(results.reduced_section.h_fi) > 0

\* C19: for a valid reduced section the fire design forces are eta_fi times
\* the ordinary ULS moment and shear of the load case, the fire design
\* strengths are 1.0 * 1.25 * f_k / 1.0, the bending-fire utilization is
\* (M_Ed_fi * 1e6 / W_y_fi) / fm_d_fi and the shear-fire utilization is
\* (1.5 * V_Ed_fi * 1e3 / A_fi) / fv_d_fi on the plain reduced area: kcr is
\* not applied in the fire shear check.
C19_FireChecks ==
    FireReturnedValid =>
        LET p == results.fire_params
            b_fi == results.reduced_section.b_fi
            h_fi == results.reduced_section.h_fi
            W_fi == RDiv(RMul(b_fi, RMul(h_fi, h_fi)), I(6))
            area == RMul(b_fi, h_fi)
        IN /\ Same(p.M_Ed_fi, RMul(p.eta_fi, M_Ed(check.load)))
           /\ Same(p.V_Ed_fi, RMul(p.eta_fi, V_Ed(check.load)))
           /\ Same(p.fm_d_fi, RMul(Dec(125, -2), check.mat.fm_k))
           /\ Same(p.fv_d_fi, RMul(Dec(125, -2), check.mat.fv_k))
           /\ Same(results.bending.strength_d_fi, p.fm_d_fi)
           /\ Same(results.shear.strength_d_fi, p.fv_d_fi)
           /\ Same(results.bending.utilization,
                   RDiv(RDiv(RMul(p.M_Ed_fi, I(1000000)), W_fi), p.fm_d_fi))
           /\ Same(results.shear.utilization,
                   RDiv(RDiv(RMul(RMul(Dec(15, -1), p.V_Ed_fi), I(1000)), area),
                        p.fv_d_fi))

\* a loaded beam whose reduced section carries both fire checks
C19_Witness_LoadedBeamPasses ==
    /\ FireReturnedValid
    /\ Sign(check.load.g_k) > 0 /\ Sign(check.load.q_k) > 0
    /\ Sign(results.shear.utilization) > 0
    /\ results.bending.passed /\ results.shear.passed


\* C20: check_deflection computes w_inst = 5 q_char L^4 / (384 E_mean I_y)
\* with L in mm, w_fin = w_inst * ((g / q_char)(1 + kdef) + (q / q_char)
\* (1 + psi_2 kdef)) with the shares 1 and 0 when q_char = 0, and w_limit =
\* L / deflection_limit, and passes exactly when w_fin <= w_limit.
C20_Deflection ==
    BeamReturned =>
        LET d == results.deflection
            g == check.load.g_k
            q == check.load.q_k
            total == RAdd(g, q)
            L == RMul(check.load.span, I(1000))
            EI == RMul(check.mat.E_0_mean,
                       RDiv(RMul(check.sec.b, RMul(check.sec.h,
                                                   RMul(check.sec.h, check.sec.h))),
                            I(12)))
            creep == Dec(TabulatedKdef(check.load.service_class), -2)
            quasi == Dec(TabulatedPsi2(check.load.load_category), -1)
            share_g == IF Sign(total) > 0 THEN RDiv(g, total) ELSE One
            share_q == IF Sign(total) > 0 THEN RDiv(q, total) ELSE Zero
        IN /\ Same(d.w_inst, RDiv(RMul(RMul(I(5), total), RPow(L, 4)),
                                  RMul(I(384), EI)))
           /\ Same(d.w_fin,
                   RMul(d.w_inst,
                        RAdd(RMul(share_g, RAdd(One, creep)),
                             RMul(share_q, RAdd(One, RMul(quasi, creep))))))
           /\ Same(d.w_limit, RDiv(L, I(check.deflection_limit)))
           /\ d.passed <=> RLeq(d.w_fin, d.w_limit)

\* a beam under permanent and variable load in service class 3 whose final
\* deflection is above the instantaneous one and above the limit
C20_Witness_CreepFailsTheBeam ==
    /\ BeamReturned
    /\ check.load.service_class = 3
    /\ Sign(check.load.g_k) > 0 /\ Sign(check.load.q_k) > 0
    /\ RLt(results.deflection.w_inst, results.deflection.w_fin)
    /\ RLt(results.deflection.w_limit, results.deflection.w_fin)
    /\ ~results.deflection.passed


BeamRead == pc = "beam_read" /\ results.checks.raised = ""
\* Within(root, x): root is the square root of x, cut off after 1/100
Within(root, x) ==
    /\ RLeq(RMul(root, root), x)
    /\ RLt(x, RMul(RAdd(root, Dec(1, -2)), RAdd(root, Dec(1, -2))))

\* C21: the buckling check takes lef = lef_factor * span (factor 1.0 by
\* default), sigma_m_crit = 0.78 b^2 E_0_05 / (h lef), lambda_rel_m =
\* sqrt(fm_k / sigma_m_crit), the reduced strength kcrit * fm_d and the
\* utilization = bending design stress / reduced strength, the stress being
\* that of the bending check.
C21_LateralTorsionalBuckling ==
    BeamRead =>
        LET factor == IF "lef_factor" \in DOMAIN args THEN args.lef_factor ELSE One
            lef == RMul(RMul(factor, check.load.span), I(1000))
            ltb == results.checks.lateral_torsional_buckling
            design == results.checks.design_values
        IN /\ Same(check.lef_factor, factor)
           /\ Same(RMul(RMul(results.sigma_m_crit, check.sec.h), lef),
                   RMul(RMul(Dec(78, -2), RMul(check.sec.b, check.sec.b)),
                        check.mat.E_0_05))
           /\ Within(results.lambda_rel_m, RDiv(check.mat.fm_k, results.sigma_m_crit))
           /\ Same(design.lambda_rel_m, results.lambda_rel_m)
           /\ Same(ltb.strength_d, RMul(results.kcrit, design.fm_d))
           /\ Same(ltb.stress_d, results.checks.bending.stress_d)
           /\ Same(ltb.utilization, RDiv(results.checks.bending.stress_d, ltb.strength_d))

\* a slender beam with a longer effective length is reduced in strength
C21_Witness_LongEffectiveLength ==
    /\ BeamRead
    /\ "lef_factor" \in DOMAIN args /\ Same(args.lef_factor, Dec(15, -1))
    /\ RLt(Dec(14, -1), results.lambda_rel_m)
    /\ RLt(results.checks.lateral_torsional_buckling.strength_d,
           results.checks.design_values.fm_d)


\* C22: the bending check returns stress = M_Ed * 1e6 / W_y, strength =
\* kmod * fm_k / gamma_M and utilization = stress / strength; the shear check
\* returns stress = 1.5 * V_Ed * 1e3 / (kcr * A), strength = kmod * fv_k /
\* gamma_M and utilization = stress / strength; gamma_M is 1.3 for solid and
\* 1.25 for glued-laminated timber, kcr 0.67 for both.
C22_BendingAndShear ==
    BeamRead =>
        LET bending == results.checks.bending
            shear == results.checks.shear
            forces == results.checks.internal_forces
            factor == IF check.mat.timber_type = "solid" THEN Dec(13, -1) ELSE Dec(125, -2)
            modification == Dec(TabulatedKmod(check.load.service_class,
                                              check.load.load_duration), -2)
            modulus == RDiv(RMul(check.sec.b, RMul(check.sec.h, check.sec.h)), I(6))
            area == RMul(check.sec.b, check.sec.h)
        IN /\ Same(results.checks.design_values.gamma_M, factor)
           /\ Same(bending.stress_d, RDiv(RMul(forces.M_Ed, I(1000000)), modulus))
           /\ Same(bending.strength_d, RDiv(RMul(modification, check.mat.fm_k), factor))
           /\ Same(bending.utilization, RDiv(bending.stress_d, bending.strength_d))
           /\ Same(shear.stress_d,
                   RDiv(RMul(RMul(Dec(15, -1), forces.V_Ed), I(1000)),
                        RMul(Dec(67, -2), area)))
           /\ Same(shear.strength_d, RDiv(RMul(modification, check.mat.fv_k), factor))
           /\ Same(shear.utilization, RDiv(shear.stress_d, shear.strength_d))

\* a loaded glued-laminated beam has been checked in bending and shear
C22_Witness_GlulamChecked ==
    /\ BeamRead
    /\ check.mat.timber_type = "glulam"
    /\ Sign(results.checks.bending.utilization) > 0
    /\ Sign(results.checks.shear.utilization) > 0
    /\ Same(results.checks.design_values.gamma_M, Dec(125, -2))


SectionRead == pc = "section_read"

\* C23: for every RectangularSection of width > 0 and height > 0 the area is
\* A = width * height, the second moment I_y = width * height^3 / 12, and the
\* section modulus W_y the code returns equals 2 * I_y / height.
C23_SectionProperties ==
    SectionRead =>
        /\ Sign(sec.b) > 0 /\ Sign(sec.h) > 0
        /\ Same(results.A, RMul(sec.b, sec.h))
        /\ Same(RMul(I(12), results.I_y), RMul(sec.b, RMul(sec.h, RMul(sec.h, sec.h))))
        /\ Same(results.W_y, RDiv(RMul(I(2), results.I_y), sec.h))

\* a section that is deeper than wide
C23_Witness_DeepSection ==
    /\ SectionRead
    /\ Same(sec.b, I(45)) /\ Same(sec.h, I(240))
    /\ Same(results.W_y, I(432000))


PositiveStrengths ==
    /\ Sign(check.mat.fm_k) > 0 /\ Sign(check.mat.fv_k) > 0
    /\ Sign(check.mat.E_0_mean) > 0 /\ Sign(check.mat.E_0_05) > 0

\* C24: for valid inputs with positive material strengths kcrit lies in
\* (0, 1], so the buckling utilization is never below the bending
\* utilization: a beam that passes the buckling check passes the bending
\* check, and max_uls_utilization is the larger of the shear and buckling
\* utilizations.
C24_BucklingGovernsBending ==
    BeamRead /\ PositiveStrengths =>
        LET bending == results.checks.bending
            shear == results.checks.shear
            ltb == results.checks.lateral_torsional_buckling
            larger == IF RLt(shear.utilization, ltb.utilization) THEN ltb.utilization
                      ELSE shear.utilization
        IN /\ RLt(Zero, results.kcrit) /\ RLeq(results.kcrit, One)
           /\ RLeq(bending.utilization, ltb.utilization)
           /\ ltb.passed => bending.passed
           /\ Same(results.checks.max_uls_utilization, larger)

\* a beam that bends within its strength and buckles beyond it
C24_Witness_BucklingAloneFails ==
    /\ BeamRead
    /\ RLt(results.kcrit, One)
    /\ results.checks.bending.passed
    /\ ~results.checks.lateral_torsional_buckling.passed


\* the instantaneous deflection of the beam of the check under the load q
\* alone: 5 q L^4 / (384 E I)
DeflectionUnder(q) ==
    RDiv(RMul(RMul(I(5), q), RPow(RMul(check.load.span, I(1000)), 4)),
         RMul(RMul(I(384), check.mat.E_0_mean),
              RDiv(RMul(check.sec.b, RPow(check.sec.h, 3)), I(12))))

BothRequested == pc = "pair_both"
First == [objects |-> check[1].fire, results |-> results[1]]
Second == [objects |-> check[2].fire, results |-> results[2]]
BothPass(r) == r.bending.passed /\ r.shear.passed
\* the second request is no more favourable than the first
NoMoreFavourable ==
    /\ RLeq(Second.results.reduced_section.b_fi, First.results.reduced_section.b_fi)
    /\ RLeq(Second.results.reduced_section.h_fi, First.results.reduced_section.h_fi)
    /\ RLeq(First.results.bending.utilization, Second.results.bending.utilization)
    /\ RLeq(First.results.shear.utilization, Second.results.shear.utilization)
    /\ BothPass(Second.results) => BothPass(First.results)

\* C26: fire resistance is monotone in the requested duration: for the same
\* material, section, load and exposure and durations 0 <= t1 <= t2 the
\* reduced dimensions at t2 are <= those at t1 and each fire utilization at
\* t2 is >= that at t1, so that a beam that passes both fire checks at t2
\* passes them at t1.
C26_MonotoneInDuration ==
    /\ BothRequested
    /\ First.objects.load = Second.objects.load
    /\ First.objects.fire.exposure = Second.objects.fire.exposure
    /\ First.objects.fire.duration <= Second.objects.fire.duration
    => NoMoreFavourable

\* a loaded beam that passes at 30 minutes and is burnt away at 120
C26_Witness_PassesThenBurntAway ==
    /\ BothRequested
    /\ First.objects.load = Second.objects.load
    /\ First.objects.fire.exposure = Second.objects.fire.exposure
    /\ First.objects.fire.duration = 30 /\ Second.objects.fire.duration = 120
    /\ Sign(First.objects.load.q_k) = 0 /\ Sign(First.objects.load.g_k) > 0
    /\ BothPass(First.results) /\ Second.results.bending.utilization = Inf

\* C27: the fire results (reduced section, utilizations, passed flags,
\* eta_fi, fire forces and strengths) depend on the material, the section,
\* g_k, q_k, the span and the fire exposure alone: two requests whose load
\* cases differ in service class, duration class or category only, or whose
\* structural checks take another lef_factor or deflection_limit, have the
\* same fire results.
C27_FireIgnoresServiceSettings ==
    BothRequested /\ First.objects.fire = Second.objects.fire
        => First.results = Second.results

\* two requests of one exposure whose settings differ in every field
C27_Witness_SettingsDiffer ==
    /\ BothRequested
    /\ First.objects.fire = Second.objects.fire
    /\ First.objects.load.service_class # Second.objects.load.service_class
    /\ First.objects.load.load_duration # Second.objects.load.load_duration
    /\ First.objects.load.load_category # Second.objects.load.load_category
    /\ check[1].beam.lef_factor # check[2].beam.lef_factor
    /\ check[1].beam.deflection_limit # check[2].beam.deflection_limit
    /\ First.results.raised = "" /\ Sign(First.results.bending.utilization) > 0
    /\ First.results.bending.utilization # Inf

\* C28: for the same material, section, load and duration >= 0 an exposure
\* on four sides is never more favourable than one on three sides: the
\* reduced width is the same, the reduced depth on four sides is <= that on
\* three, each fire utilization on four sides is >= that on three, and a beam
\* that passes both fire checks on four sides passes them on three.
C28_FourSidesNoMoreFavourable ==
    /\ BothRequested
    /\ First.objects.load = Second.objects.load
    /\ First.objects.fire.duration = Second.objects.fire.duration
    /\ First.objects.fire.exposure = "three_sides"
    /\ Second.objects.fire.exposure = "four_sides"
    => /\ NoMoreFavourable
       /\ Same(First.results.reduced_section.b_fi, Second.results.reduced_section.b_fi)

\* a loaded beam that is less deep and more stressed on four sides
C28_Witness_FourSidesWorse ==
    /\ BothRequested
    /\ First.objects.load = Second.objects.load
    /\ First.objects.fire.duration = Second.objects.fire.duration
    /\ First.objects.fire.exposure = "three_sides"
    /\ Second.objects.fire.exposure = "four_sides"
    /\ RLt(Second.results.reduced_section.h_fi, First.results.reduced_section.h_fi)
    /\ RLt(First.results.bending.utilization, Second.results.bending.utilization)
    /\ Second.results.bending.utilization # Inf


\* C29: for every accepted LoadCase with g_k + q_k > 0 the factor eta_fi lies
\* in the closed range [1/3, 1/1.35], 1/3 for variable load alone and 1/1.35
\* for permanent load alone; in every case, the 0.6 of an unloaded beam
\* included, 0 < eta_fi < 1, so that the fire design moment and shear never
\* exceed the design moment and shear of the ultimate limit state.
C29_LoadReductionRange ==
    FireRead =>
        LET g == check.load.g_k
            q == check.load.q_k
            eta == results.eta_fi
            lowest == RDiv(One, I(3))
            highest == RDiv(One, Dec(135, -2))
        IN /\ RLt(Zero, eta) /\ RLt(eta, One)
           /\ RLeq(results.M_Ed_fi, M_Ed(check.load))
           /\ RLeq(results.V_Ed_fi, V_Ed(check.load))
           /\ Sign(RAdd(g, q)) > 0 =>
                /\ RLeq(lowest, eta) /\ RLeq(eta, highest)
                /\ Sign(g) = 0 => Same(eta, lowest)
                /\ Sign(q) = 0 => Same(eta, highest)

\* a beam under permanent load alone, at the upper end of the range, with a
\* fire moment below the design moment
C29_Witness_PermanentLoadAlone ==
    /\ FireRead
    /\ Same(check.load.g_k, Dec(15, -1)) /\ Sign(check.load.q_k) = 0
    /\ Same(results.eta_fi, RDiv(I(20), I(27)))
    /\ RLt(results.M_Ed_fi, M_Ed(check.load))

====
